---- MODULE Spec2Model ----
(***************************************************************************)
(* Model of the UMD module-format transform (Umd::fold_module) of twasm.   *)
(* One behaviour folds one module: the item loop is taken one top-level    *)
(* item per step, the post-loop synthesis is one step, and the emitted     *)
(* factory body is then executed by one step of a small interpreter.       *)
(***************************************************************************)
EXTENDS Naturals, Integers, Sequences, FiniteSets, TLC

VARIABLES cfg, input, pc, stmts, extra_stmts, exports, initialized,
          export_alls, emitted_esmodule, has_export, scope, out, run,
          KEYID, calls, head

\* The state of the transform and of the run of its output.
foldVars == <<cfg, input, pc, stmts, extra_stmts, exports, initialized,
              export_alls, emitted_esmodule, has_export, scope, out, run>>

\* The state of the loader (src/src/lib.rs): the load-key counter, the
\* invocations of main, and the script elements of the document head.
loadVars == <<KEYID, calls, head>>

vars == <<foldVars, loadVars>>

\* ------------------------------------------------------------------------
\* Bounds of the model
\* ------------------------------------------------------------------------
MaxItems == 3

\* Invocations of main in one behaviour, all of which may overlap.
MaxCalls == 2

Names == {"a", "b"}
Srcs == {"./m", "./n"}
Vals == {"1", "2"}

\* ------------------------------------------------------------------------
\* Small helpers
\* ------------------------------------------------------------------------
Range(s) == {s[i] : i \in 1..Len(s)}

RECURSIVE Flatten(_)
Flatten(ss) == IF ss = <<>> THEN <<>> ELSE Head(ss) \o Flatten(Tail(ss))

NoDup(s) == \A i, j \in 1..Len(s) : s[i] = s[j] => i = j

\* ------------------------------------------------------------------------
\* Emitted statements.  Every statement is a record of the same shape:
\*   op    the kind of statement
\*   name  the identifier / property the statement is about
\*   rhs   the identifier or value on the right-hand side
\*   src   a module specifier or object identifier
\*   names an ordered list of names, nset an unordered set of names
\* ------------------------------------------------------------------------
St(op, name, rhs, src, names, nset) ==
    [op |-> op, name |-> name, rhs |-> rhs, src |-> src, names |-> names, nset |-> nset]

use_strict == St("use_strict", "", "", "", <<>>, {})

\* Object.defineProperty(exports, "__esModule", { value: true })
define_es_module(exports_ident) == St("es_module", "__esModule", "true", exports_ident, <<>>, {})

\* exports.<prop> = <ident>
ExportAssign(prop, ident) == St("export_assign", prop, ident, "", <<>>, {})

\* Object.defineProperty(exports, "<prop>", { enumerable: true, get: () => <obj>.<member> })
define_property(prop, obj, member) == St("define_getter", prop, member, obj, <<>>, {})

\* exports.a = exports.b = void 0
initialize_to_undefined(exports_ident, names) == St("init_undef", "", "undef", exports_ident, <<>>, names)

exports_ident == "exports"
default_ident == "_default"


\* ------------------------------------------------------------------------
\* Top-level items of the input module (ModuleItem).  One record shape:
\*   kind   which ModuleItem / ModuleDecl variant
\*   sub    a sub-kind (import form, var kind, TypeScript declaration)
\*   name   the declared / local identifier ("" when there is none)
\*   src    the module specifier ("" when there is none)
\*   decls  the declarators of a var declaration, each the list of the
\*          identifiers its (possibly destructuring) pattern binds
\*   specs  the specifiers of `export { }`: [orig, exported] ("" = no `as`)
\*   val    the value a statement assigns
\* ------------------------------------------------------------------------
It(kind, sub, name, src, decls, specs, val) ==
    [kind |-> kind, sub |-> sub, name |-> name, src |-> src,
     decls |-> decls, specs |-> specs, val |-> val]

Sp(orig, exported) == [orig |-> orig, exported |-> exported]

\* Local names bound by import declarations.
ImportLocal == [named |-> "x", default |-> "d", ns |-> "ns"]

StmtItems ==
    {It("stmt_assign", "", "a", "", <<>>, <<>>, v) : v \in Vals}
    \cup {It("stmt_var", "let", "a", "", <<>>, <<>>, "0"),
          It("stmt_var", "const", "b", "", <<>>, <<>>, "0")}

ImportItems ==
    {It("import", "bare", "", s, <<>>, <<>>, "") : s \in Srcs}
    \cup {It("import", f, ImportLocal[f], "./m", <<>>, <<>>, "") :
              f \in {"named", "default", "ns"}}
    \cup {It("import", "ns", ImportLocal["ns"], "./n", <<>>, <<>>, "")}

ExportAllItems == {It("export_all", "", "", s, <<>>, <<>>, "") : s \in Srcs}

ExportDeclItems ==
    {It("export_fn", "", "a", "", <<>>, <<>>, ""),
     It("export_class", "", "b", "", <<>>, <<>>, "")}
    \cup {It("export_var", "let", "", "", <<<<n>>>>, <<>>, "0") : n \in Names}
    \cup {It("export_var", "const", "", "", <<<<"a", "b">>>>, <<>>, "0")}

ExportDefaultItems ==
    {It("export_default_fn", "", n, "", <<>>, <<>>, "") : n \in {"", "a"}}
    \cup {It("export_default_class", "", n, "", <<>>, <<>>, "") : n \in {"", "a"}}
    \cup {It("export_default_interface", "", "I", "", <<>>, <<>>, ""),
          It("export_default_expr", "", "", "", <<>>, <<>>, "1")}

ExportNamedItems ==
    {It("export_named", "", "", "", <<>>, sp, "") :
        sp \in {<<Sp("a", "")>>, <<Sp("a", "b")>>, <<Sp("x", "")>>, <<Sp("ns", "")>>}}
    \cup {It("export_named", "", "", "./m", <<>>, sp, "") :
        sp \in {<<>>, <<Sp("a", "")>>, <<Sp("default", "b")>>}}

TsItems == {It("ts", k, "", "", <<>>, <<>>, "") :
               k \in {"TsImportEquals", "TsExportAssignment", "TsNamespaceExport"}}

\* ------------------------------------------------------------------------
\* What an input item declares and exports (read off the source text of the
\* module; used to draw well-formed modules and to state the claims).
\* ------------------------------------------------------------------------
VarNames(item) == Flatten(item.decls)

\* Local bindings the item introduces.
DeclaredBy(item) ==
    CASE item.kind = "stmt_var" -> {item.name}
      [] item.kind = "import" -> {item.name} \ {""}
      [] item.kind \in {"export_fn", "export_class"} -> {item.name}
      [] item.kind = "export_var" -> Range(VarNames(item))
      [] item.kind \in {"export_default_fn", "export_default_class"} -> {item.name} \ {""}
      [] OTHER -> {}

SpecExported(sp) == IF sp.exported = "" THEN sp.orig ELSE sp.exported

\* Names the item puts on the module's export surface.
ExportedBy(item) ==
    CASE item.kind \in {"export_fn", "export_class"} -> {item.name}
      [] item.kind = "export_var" -> Range(VarNames(item))
      [] item.kind \in {"export_default_fn", "export_default_class", "export_default_expr"}
            -> {"default"}
      [] item.kind = "export_named" -> {SpecExported(item.specs[i]) : i \in 1..Len(item.specs)}
      [] OTHER -> {}

IsExportDecl(item) ==
    item.kind \in {"export_all", "export_fn", "export_class", "export_var",
                   "export_default_fn", "export_default_class",
                   "export_default_interface", "export_default_expr", "export_named"}

DeclaredIn(items) == UNION {DeclaredBy(items[i]) : i \in 1..Len(items)}
ExportedIn(items) == UNION {ExportedBy(items[i]) : i \in 1..Len(items)}

\* A well-formed module declares no binding twice and exports no name twice
\* (spec section 3, Export Record invariant).
CanAppend(items, item) ==
    /\ Len(items) < MaxItems
    /\ DeclaredBy(item) \cap DeclaredIn(items) = {}
    /\ ExportedBy(item) \cap ExportedIn(items) = {}
    /\ Cardinality(Range(VarNames(item))) = Len(VarNames(item))

\* ------------------------------------------------------------------------
\* Scope (swc_ecma_transforms_module::util::Scope): the transform's
\* bookkeeping of imports and exported variables.
\* ------------------------------------------------------------------------
EmptyMap == [k \in {} |-> ""]
Put(f, k, v) == (k :> v) @@ f

EmptyScope ==
    [imports |-> <<>>, import_types |-> EmptyMap, idents |-> EmptyMap,
     declared_vars |-> {}, exported_vars |-> EmptyMap]

\* local_name_for_src: "_" + the camel-cased last path segment.
LocalNameTable == [s \in Srcs |-> IF s = "./m" THEN "_m" ELSE "_n"]
local_name_for_src(src) == LocalNameTable[src]

\* BuiltConfig::global_name: the camel-cased base name of the specifier.
GlobalNameTable == [s \in Srcs |-> IF s = "./m" THEN "m" ELSE "n"]
global_name(src) == GlobalNameTable[src]

ImportIndex(imports, src) ==
    IF \E i \in 1..Len(imports) : imports[i].src = src
    THEN CHOOSE i \in 1..Len(imports) : imports[i].src = src
    ELSE 0

\* IndexMap::entry(src).or_insert(local): keeps an existing entry and its
\* position, appends a new one at the end.
ImportsOrInsert(imports, src, local) ==
    IF ImportIndex(imports, src) # 0 THEN imports
    ELSE Append(imports, [src |-> src, local |-> local])

\* IndexMap::entry(src).and_modify(..): replaces the value, keeps the position.
ImportsSet(imports, src, local) ==
    [imports EXCEPT ![ImportIndex(imports, src)] = [src |-> src, local |-> local]]

ImportLocalOf(imports, src) == imports[ImportIndex(imports, src)].local

\* Scope::insert_import
insert_import(sc, import) ==
    CASE import.sub = "bare" ->
            [sc EXCEPT !.imports = ImportsOrInsert(@, import.src, "")]
      [] import.sub = "ns" ->
            [sc EXCEPT
               !.idents = Put(@, import.name, [src |-> import.src, prop |-> ""]),
               !.imports = IF ImportIndex(@, import.src) # 0
                           THEN ImportsSet(@, import.src, import.name)
                           ELSE Append(@, [src |-> import.src, local |-> import.name]),
               !.import_types = Put(@, import.src, TRUE)]
      [] import.sub = "default" ->
            [sc EXCEPT
               !.imports = ImportsOrInsert(@, import.src, local_name_for_src(import.src)),
               !.idents = Put(@, import.name, [src |-> import.src, prop |-> "default"]),
               !.import_types = IF import.src \in DOMAIN @ THEN @
                                ELSE Put(@, import.src, FALSE)]
      [] import.sub = "named" ->
            [sc EXCEPT
               !.imports = ImportsOrInsert(@, import.src, local_name_for_src(import.src)),
               !.idents = Put(@, import.name, [src |-> import.src, prop |-> import.name]),
               !.import_types = IF import.src \in DOMAIN @ THEN Put(@, import.src, TRUE)
                                ELSE @]

\* Scope::import_to_export: registers src; with init a local name is made
\* when the entry has none.  The returned identifier is ImportLocalOf.
import_to_export(sc, src, init) ==
    [sc EXCEPT !.imports =
        IF ImportIndex(@, src) # 0
        THEN IF init /\ ImportLocalOf(@, src) = ""
             THEN ImportsSet(@, src, local_name_for_src(src))
             ELSE @
        ELSE Append(@, [src |-> src,
                        local |-> IF init THEN local_name_for_src(src) ELSE ""])]

\* Scope::fold_ident: a reference to an imported binding becomes a member
\* access on the module's local (the local itself for a namespace import).
fold_ident(sc, name) ==
    IF name \in DOMAIN sc.idents
    THEN LET e == sc.idents[name]
             obj == ImportLocalOf(sc.imports, e.src)
         IN IF e.prop = ""
            THEN [is_ident |-> TRUE, ident |-> obj, obj |-> "", prop |-> ""]
            ELSE [is_ident |-> FALSE, ident |-> "", obj |-> obj, prop |-> e.prop]
    ELSE [is_ident |-> TRUE, ident |-> name, obj |-> "", prop |-> ""]

\* Scope::fold_expr on `name = val`: an assignment to an exported variable
\* is chained onto every export of it (exports.a = exports.b = name = val).
fold_assign(sc, name, val) ==
    St("assign", name, val, "",
       IF name \in DOMAIN sc.exported_vars THEN sc.exported_vars[name] ELSE <<>>, {})

\* VarCollector: the identifiers the declarators bind, added to declared_vars.
var_collect(declared_vars, names) == declared_vars \cup Range(names)


\* ========================================================================
\* src/src/lib.rs: the loader.  main(filename, input) parses the input,
\* lowers it, prints it, draws a load key and injects the printed text as a
\* script element into the document head.  The text the printer emits is a
\* sequence of characters; the printer's buffer is a sequence of bytes, and
\* a String is the sequence of the bytes of its UTF-8 encoding.
\* ========================================================================
\* The invocations of main in one behaviour.
Procs == 1..MaxCalls

\* What the parser finds in the input text, and the one module declaration
\* the lowering has to deal with.
Sources ==
    {[syntax |-> "ok", shape |-> m] : m \in {"plain", "import", "namespace_export"}}
    \cup {[syntax |-> s, shape |-> "plain"] : s \in {"recovered", "fatal"}}

NoSource == [syntax |-> "", shape |-> ""]

\* Errors the parser has collected: none before the module has been parsed.
parser_errors(src, parsed) ==
    IF parsed /\ src.syntax = "recovered" THEN <<"recoverable">> ELSE <<>>

\* amd::amd has no arm for `export * as ns from "x"` (unreachable!()).
amd_lowers(shape) == shape # "namespace_export"

\* The printed text of the lowered module.
PrintedPlain ==
    <<"d", "e", "f", "i", "n", "e", "(", "[", "]", ",", " ", "f", "u", "n",
      "c", "t", "i", "o", "n", "(", ")", " ", "{", "\n", " ", " ", " ",
      " ", "\"", "u", "s", "e", " ", "s", "t", "r", "i", "c", "t", "\"",
      ";", "\n", "}", ")", ";", "\n">>

PrintedImport ==
    <<"d", "e", "f", "i", "n", "e", "(", "[", "\"", ".", "/", "m", "\"",
      "]", ",", " ", "f", "u", "n", "c", "t", "i", "o", "n", "(", "_", "m",
      ")", " ", "{", "\n", " ", " ", " ", " ", "\"", "u", "s", "e", " ",
      "s", "t", "r", "i", "c", "t", "\"", ";", "\n", "}", ")", ";", "\n">>

emit_module(shape) == IF shape = "import" THEN PrintedImport ELSE PrintedPlain

\* UTF-8 code of the characters the printer emits (all of them ASCII).
Utf8Code ==
    ("\n" :> 10) @@ (" " :> 32) @@ ("\"" :> 34) @@ ("(" :> 40) @@
    (")" :> 41) @@ ("," :> 44) @@ ("." :> 46) @@ ("/" :> 47) @@
    ("0" :> 48) @@ ("1" :> 49) @@ ("2" :> 50) @@ ("3" :> 51) @@
    ("4" :> 52) @@ ("5" :> 53) @@ ("6" :> 54) @@ ("7" :> 55) @@
    ("8" :> 56) @@ ("9" :> 57) @@ (";" :> 59) @@ ("[" :> 91) @@
    ("]" :> 93) @@ ("_" :> 95) @@ ("c" :> 99) @@ ("d" :> 100) @@
    ("e" :> 101) @@ ("f" :> 102) @@ ("i" :> 105) @@ ("m" :> 109) @@
    ("n" :> 110) @@ ("o" :> 111) @@ ("r" :> 114) @@ ("s" :> 115) @@
    ("t" :> 116) @@ ("u" :> 117) @@ ("{" :> 123) @@ ("}" :> 125)

\* JsWriter hands the text to Buf::write as bytes.
as_bytes(text) == [i \in 1..Len(text) |-> Utf8Code[text[i]]]

\* String::from_utf8_lossy: the bytes are decoded as UTF-8; well-formed
\* sequences are kept, every maximal ill-formed run of bytes becomes one
\* U+FFFD.  Replacement is the UTF-8 encoding of U+FFFD.
Replacement == <<239, 191, 189>>

IsContinuation(b) == b \in 128..191

\* The byte at index i, 0 past the end.
safe_get(bytes, i) == IF i <= Len(bytes) THEN bytes[i] ELSE 0

\* The length of the sequence a first byte announces, 0 for a byte that
\* starts none.
utf8_char_width(b) ==
    IF b < 128 THEN 1
    ELSE IF b \in 194..223 THEN 2
    ELSE IF b \in 224..239 THEN 3
    ELSE IF b \in 240..244 THEN 4
    ELSE 0

\* The second byte is admissible after the first byte of a three-byte or
\* four-byte sequence (no overlong form, no surrogate, nothing past U+10FFFF).
SecondByteOk(first, second) ==
    \/ first = 224 /\ second \in 160..191
    \/ first \in 225..236 /\ second \in 128..191
    \/ first = 237 /\ second \in 128..159
    \/ first \in 238..239 /\ second \in 128..191
    \/ first = 240 /\ second \in 144..191
    \/ first \in 241..243 /\ second \in 128..191
    \/ first = 244 /\ second \in 128..143

\* The chunk that starts at index i: whether it is a character, and how
\* many bytes it takes.
Utf8Chunk(bytes, i) ==
    LET first == bytes[i]
        w == utf8_char_width(first)
        bad(n) == [valid |-> FALSE, len |-> n]
    IN CASE w = 1 -> [valid |-> TRUE, len |-> 1]
         [] w = 2 -> IF IsContinuation(safe_get(bytes, i + 1))
                     THEN [valid |-> TRUE, len |-> 2] ELSE bad(1)
         [] w = 3 -> IF ~SecondByteOk(first, safe_get(bytes, i + 1)) THEN bad(1)
                     ELSE IF ~IsContinuation(safe_get(bytes, i + 2)) THEN bad(2)
                     ELSE [valid |-> TRUE, len |-> 3]
         [] w = 4 -> IF ~SecondByteOk(first, safe_get(bytes, i + 1)) THEN bad(1)
                     ELSE IF ~IsContinuation(safe_get(bytes, i + 2)) THEN bad(2)
                     ELSE IF ~IsContinuation(safe_get(bytes, i + 3)) THEN bad(3)
                     ELSE [valid |-> TRUE, len |-> 4]
         [] OTHER -> bad(1)

\* lossy[i] is the decoding of the bytes from index i on.
from_utf8_lossy(bytes) ==
    LET n == Len(bytes)
        lossy[i \in 1..(n + 1)] ==
            IF i > n THEN <<>>
            ELSE LET c == Utf8Chunk(bytes, i)
                 IN (IF c.valid THEN SubSeq(bytes, i, i + c.len - 1) ELSE Replacement)
                    \o lossy[i + c.len]
    IN lossy[1]

\* format!("{}", keyid): the decimal digits of the key.
DigitChars == <<"0", "1", "2", "3", "4", "5", "6", "7", "8", "9">>

RECURSIVE Digits(_)
Digits(n) ==
    IF n < 10 THEN <<DigitChars[n + 1]>>
    ELSE Digits(n \div 10) \o <<DigitChars[(n % 10) + 1]>>

\* &output[7..]: the string from byte 7 on.  Slicing panics unless the
\* index is a character boundary of the string.
PrefixLen == 7

\* str::is_char_boundary: the start, the end, or a byte that is no
\* continuation byte.
is_char_boundary(output, n) ==
    \/ n = 0
    \/ n = Len(output)
    \/ n < Len(output) /\ ~IsContinuation(output[n + 1])

\* Mutant: the slice keeps the last byte of the prefix.
M_slice_from_Inclusive(output, n) == SubSeq(output, n, Len(output))

slice_from(output, n) == SubSeq(output, n + 1, Len(output))

\* format!("define({}, {}", keyid, rest)
format_define(keyid, rest) ==
    as_bytes(<<"d", "e", "f", "i", "n", "e", "(">> \o Digits(keyid) \o <<",", " ">>)
    \o rest

\* keyid::new: KEYID.fetch_add(1, SeqCst) returns the previous value.  The
\* counter is a u64; it does not wrap within MaxCalls invocations.
\* Mutant: the call returns the new value of the counter.
M_fetch_add_ReturnsNew(counter, n) == [ret |-> counter + n, counter |-> counter + n]

fetch_add(counter, n) == [ret |-> counter, counter |-> counter + n]

NoKey == 0 - 1

NoElem == [created |-> FALSE, inner_html |-> <<>>]

\* One invocation of main/transpile: where it stands and its locals.
NoResult == [kind |-> "", key |-> NoKey, err |-> ""]

IdleCall ==
    [pc |-> "idle", src |-> NoSource, diags |-> <<>>, buf |-> <<>>,
     output |-> <<>>, keyid |-> NoKey, elem |-> NoElem, result |-> NoResult]

\* What main hands back to its caller: Ok(key), Err(text of the error), or
\* nothing at all when the invocation panicked.
MainOk(c) == [kind |-> "ok", key |-> c.keyid, err |-> ""]

MainErr(c, e) == [kind |-> "err", key |-> NoKey, err |-> e]

Panicked(c) == [kind |-> "panic", key |-> NoKey, err |-> ""]

\* The invocation is over with result r: its locals are gone; the source,
\* the diagnostics emitted and the key drawn are kept for the record.
Ended(c, r) ==
    [IdleCall EXCEPT !.pc = "returned", !.src = c.src, !.diags = c.diags,
                     !.keyid = c.keyid, !.result = r]

\* The invocation goes on with locals c.
Goes(p, c) == calls' = [calls EXCEPT ![p] = c]

\* `?` / map_err: transpile returns Err(e), main returns its Debug text.
Fails(p, c, e) == calls' = [calls EXCEPT ![p] = Ended(c, MainErr(c, e))]

\* unwrap(), unreachable!(), slicing out of range: the invocation unwinds.
Panics(p, c) == calls' = [calls EXCEPT ![p] = Ended(c, Panicked(c))]

\* main(filename, input) is called.
CallMain(p) ==
    /\ calls[p].pc = "idle"
    /\ \E src \in Sources :
          calls' = [calls EXCEPT ![p] = [IdleCall EXCEPT !.pc = "parse", !.src = src]]
    /\ UNCHANGED <<KEYID, head>>
    /\ UNCHANGED foldVars

\* Lines 97-104: the collected errors are emitted, then the module is
\* parsed; a parse failure emits its diagnostic and ends the invocation.
Parse(p) ==
    /\ calls[p].pc = "parse"
    /\ LET c == calls[p]
           taken == parser_errors(c.src, FALSE)
           c1 == [c EXCEPT !.diags = @ \o taken]
       IN IF c.src.syntax = "fatal"
          THEN Fails(p, [c1 EXCEPT !.diags = Append(@, "fatal")], "DiagnosticEmitted")
          ELSE Goes(p, [c1 EXCEPT !.pc = "lower"])
    /\ UNCHANGED <<KEYID, head>>
    /\ UNCHANGED foldVars

\* Lines 105-106: strip() and amd().
Lower(p) ==
    /\ calls[p].pc = "lower"
    /\ LET c == calls[p]
       IN IF amd_lowers(c.src.shape)
          THEN Goes(p, [c EXCEPT !.pc = "emit"])
          ELSE Panics(p, c)
    /\ UNCHANGED <<KEYID, head>>
    /\ UNCHANGED foldVars

\* Lines 109-119 and Buf::write: the printer writes the text into the
\* buffer behind the lock.  A poisoned lock panics in write (unwrap), an
\* I/O error is returned.
Emit(p) ==
    /\ calls[p].pc = "emit"
    /\ LET c == calls[p]
       IN \E outcome \in {"ok", "io_error", "poisoned"} :
             CASE outcome = "ok" ->
                    Goes(p, [c EXCEPT !.pc = "read",
                                      !.buf = @ \o as_bytes(emit_module(c.src.shape))])
               [] outcome = "io_error" -> Fails(p, c, "IOError")
               [] outcome = "poisoned" -> Panics(p, c)
    /\ UNCHANGED <<KEYID, head>>
    /\ UNCHANGED foldVars

\* Lines 121-122: the buffer is read back as text.
ReadOutput(p) ==
    /\ calls[p].pc = "read"
    /\ LET c == calls[p]
       IN \E ok \in BOOLEAN :
             IF ok THEN Goes(p, [c EXCEPT !.pc = "keyid", !.output = from_utf8_lossy(c.buf)])
             ELSE Fails(p, c, "PoisonError")
    /\ UNCHANGED <<KEYID, head>>
    /\ UNCHANGED foldVars

\* Mutant: the key is read off the counter, which is left as it is.
M_NewKeyPeek(p) ==
    /\ calls[p].pc = "keyid"
    /\ LET r == fetch_add(KEYID, 1)
       IN /\ KEYID' = KEYID
          /\ Goes(p, [calls[p] EXCEPT !.pc = "host", !.keyid = r.ret])
    /\ UNCHANGED head
    /\ UNCHANGED foldVars

\* Line 124: keyid::new().
NewKey(p) ==
    /\ calls[p].pc = "keyid"
    /\ LET r == fetch_add(KEYID, 1)
       IN /\ KEYID' = r.counter
          /\ Goes(p, [calls[p] EXCEPT !.pc = "host", !.keyid = r.ret])
    /\ UNCHANGED head
    /\ UNCHANGED foldVars

\* Mutant: a failed lookup hands the key back to the counter.
M_HostLookupRollsBack(p) ==
    /\ calls[p].pc = "host"
    /\ LET c == calls[p]
       IN \E missing \in {"", "InvalidWindow", "InvalidDocument", "InvalidHead"} :
             IF missing = ""
             THEN Goes(p, [c EXCEPT !.pc = "create"]) /\ KEYID' = KEYID
             ELSE Fails(p, c, missing) /\ KEYID' = c.keyid
    /\ UNCHANGED head
    /\ UNCHANGED foldVars

\* Lines 126-128: window, document, head.
HostLookup(p) ==
    /\ calls[p].pc = "host"
    /\ LET c == calls[p]
       IN \E missing \in {"", "InvalidWindow", "InvalidDocument", "InvalidHead"} :
             IF missing = "" THEN Goes(p, [c EXCEPT !.pc = "create"])
             ELSE Fails(p, c, missing)
    /\ UNCHANGED <<KEYID, head>>
    /\ UNCHANGED foldVars

\* Line 129: document.create_element("script").
CreateElement(p) ==
    /\ calls[p].pc = "create"
    /\ LET c == calls[p]
       IN \E ok \in BOOLEAN :
             IF ok THEN Goes(p, [c EXCEPT !.pc = "fill", !.elem.created = TRUE])
             ELSE Fails(p, c, "JSError")
    /\ UNCHANGED <<KEYID, head>>
    /\ UNCHANGED foldVars

\* Line 130: elem.set_inner_html(format!("define({}, {}", keyid, &output[7..])).
SetInnerHtml(p) ==
    /\ calls[p].pc = "fill"
    /\ LET c == calls[p]
       IN IF ~is_char_boundary(c.output, PrefixLen)
          THEN Panics(p, c)
          ELSE Goes(p, [c EXCEPT
                          !.pc = "append",
                          !.elem.inner_html =
                              format_define(c.keyid, slice_from(c.output, PrefixLen))])
    /\ UNCHANGED <<KEYID, head>>
    /\ UNCHANGED foldVars

\* Mutant: the element is in the head although append_child failed.
M_AppendChildOnError(p) ==
    /\ calls[p].pc = "append"
    /\ LET c == calls[p]
       IN /\ head' = Append(head, [call |-> p, inner_html |-> c.elem.inner_html])
          /\ \E ok \in BOOLEAN :
                IF ok THEN Goes(p, [c EXCEPT !.pc = "return"])
                ELSE Fails(p, c, "JSError")
    /\ UNCHANGED KEYID
    /\ UNCHANGED foldVars

\* Line 131: head.append_child(&elem).
AppendChild(p) ==
    /\ calls[p].pc = "append"
    /\ LET c == calls[p]
       IN \E ok \in BOOLEAN :
             IF ok
             THEN /\ head' = Append(head, [call |-> p, inner_html |-> c.elem.inner_html])
                  /\ Goes(p, [c EXCEPT !.pc = "return"])
             ELSE /\ head' = head
                  /\ Fails(p, c, "JSError")
    /\ UNCHANGED KEYID
    /\ UNCHANGED foldVars

\* Line 133 and main: Ok(keyid).
Return(p) ==
    /\ calls[p].pc = "return"
    /\ calls' = [calls EXCEPT ![p] = Ended(calls[p], MainOk(calls[p]))]
    /\ UNCHANGED <<KEYID, head>>
    /\ UNCHANGED foldVars

\* ------------------------------------------------------------------------
\* Umd::fold_module, the item loop
\* ------------------------------------------------------------------------
\* The configurations the model runs under (util::Config).
Configs ==
    {[strict_mode |-> TRUE,  strict |-> FALSE, no_interop |-> FALSE],
     [strict_mode |-> FALSE, strict |-> TRUE,  no_interop |-> FALSE],
     [strict_mode |-> TRUE,  strict |-> FALSE, no_interop |-> TRUE]}

\* No item of the model is a "use strict" directive.
has_use_strict(items) == FALSE

InitStmts(c) == IF c.strict_mode /\ ~has_use_strict(<<>>) THEN <<use_strict>> ELSE <<>>

Init ==
    /\ cfg \in Configs
    /\ input = <<>>
    /\ pc = "loop"
    /\ stmts = InitStmts(cfg)
    /\ extra_stmts = <<>>
    /\ exports = <<>>
    /\ initialized = {}
    /\ export_alls = <<>>
    /\ emitted_esmodule = FALSE
    /\ has_export = FALSE
    /\ scope = EmptyScope
    /\ out = <<>>
    /\ run = [state |-> "none", locals |-> EmptyMap, exports |-> EmptyMap]
    /\ KEYID = 0
    /\ calls = [p \in Procs |-> IdleCall]
    /\ head = <<>>

\* The marker is pushed by the first export declaration unless config.strict.
EmitsMarker(strict, emitted) == ~strict /\ ~emitted

\* Mutant: the emitted_esmodule flag is not consulted.
M_MarkerStmtsEvery(strict, emitted, ss) ==
    IF ~strict THEN Append(ss, define_es_module(exports_ident)) ELSE ss

MarkerStmts(strict, emitted, ss) ==
    IF EmitsMarker(strict, emitted) THEN Append(ss, define_es_module(exports_ident)) ELSE ss

\* Common head of every export arm: has_export and the marker.
ExportHead ==
    /\ has_export' = TRUE
    /\ emitted_esmodule' = (emitted_esmodule \/ EmitsMarker(cfg.strict, emitted_esmodule))

\* fold_var_decl: let and var declarations are collected, const is not.
fold_var_decl(sc, kind, names) ==
    IF kind # "const" THEN [sc EXCEPT !.declared_vars = var_collect(@, names)] ELSE sc

VarDeclStmt(kind, names, val) == St("var_decl", kind, val, "", names, {})

\* ModuleItem::Stmt: folded and pushed onto the body buffer.
ItemStmt ==
    /\ pc = "loop"
    /\ \E item \in StmtItems :
        /\ CanAppend(input, item)
        /\ input' = Append(input, item)
        /\ IF item.kind = "stmt_assign"
           THEN /\ extra_stmts' = Append(extra_stmts, fold_assign(scope, item.name, item.val))
                /\ scope' = scope
           ELSE /\ extra_stmts' = Append(extra_stmts,
                                         VarDeclStmt(item.sub, <<item.name>>, item.val))
                /\ scope' = fold_var_decl(scope, item.sub, <<item.name>>)
    /\ UNCHANGED <<cfg, pc, stmts, exports, initialized, export_alls,
                   emitted_esmodule, has_export, out, run>>
    /\ UNCHANGED loadVars

\* ModuleDecl::Import: registered in the scope, nothing emitted yet.
ItemImport ==
    /\ pc = "loop"
    /\ \E item \in ImportItems :
        /\ CanAppend(input, item)
        /\ input' = Append(input, item)
        /\ scope' = insert_import(scope, item)
    /\ UNCHANGED <<cfg, pc, stmts, extra_stmts, exports, initialized, export_alls,
                   emitted_esmodule, has_export, out, run>>
    /\ UNCHANGED loadVars

\* ModuleDecl::ExportAll: an existing import type becomes wildcard; the
\* declaration is deferred.
ExportAllImportTypes(types, src) ==
    IF src \in DOMAIN types THEN Put(types, src, TRUE) ELSE types

ItemExportAll ==
    /\ pc = "loop"
    /\ \E item \in ExportAllItems :
        /\ CanAppend(input, item)
        /\ input' = Append(input, item)
        /\ scope' = [scope EXCEPT !.import_types = ExportAllImportTypes(@, item.src)]
        /\ export_alls' = Append(export_alls, item.src)
    /\ ExportHead
    /\ stmts' = MarkerStmts(cfg.strict, emitted_esmodule, stmts)
    /\ UNCHANGED <<cfg, pc, extra_stmts, exports, initialized, out, run>>
    /\ UNCHANGED loadVars

\* export function f / export class C: the declaration goes to the body
\* buffer; the export assignment of a class follows it there, the one of a
\* function goes to the prelude.
DeclStmt(is_class, name) ==
    St(IF is_class THEN "class_decl" ELSE "fn_decl", name, "", "", <<>>, {})

\* Mutant: every export assignment follows its declaration in the body.
M_AssignToBodyAlways(is_class) == TRUE

\* Mutant: every export assignment is pushed onto the prelude.
M_AssignToBodyNever(is_class) == FALSE

AssignToBody(is_class) == is_class

ItemExportFnClass ==
    /\ pc = "loop"
    /\ \E item \in {i \in ExportDeclItems : i.kind \in {"export_fn", "export_class"}} :
        LET is_class == item.kind = "export_class"
            assign == ExportAssign(item.name, item.name)
            withDecl == Append(extra_stmts, DeclStmt(is_class, item.name))
            marked == MarkerStmts(cfg.strict, emitted_esmodule, stmts)
        IN /\ CanAppend(input, item)
           /\ input' = Append(input, item)
           /\ extra_stmts' = IF AssignToBody(is_class) THEN Append(withDecl, assign)
                             ELSE withDecl
           /\ stmts' = IF AssignToBody(is_class) THEN marked ELSE Append(marked, assign)
    /\ ExportHead
    /\ UNCHANGED <<cfg, pc, exports, initialized, export_alls, scope, out, run>>
    /\ UNCHANGED loadVars

\* Mutant: the name joins the exports list only.
M_init_export_ListOnly(acc, name) == [acc EXCEPT !.exports = Append(@, name)]

\* init_export!: the name joins the exports list and the initialized set.
\* The accumulator of the export arms is
\*   [scope, exports, initialized, stmts, extra_stmts].
init_export(acc, name) ==
    [acc EXCEPT !.exports = Append(@, name), !.initialized = @ \cup {name}]

PushExported(ev, key, name) ==
    Put(ev, key, (IF key \in DOMAIN ev THEN ev[key] ELSE <<>>) \o <<name>>)

\* Mutant: the identifier is not recorded in exported_vars.
M_ExportVarIdentUnrecorded(acc, ident) ==
    [init_export(acc, ident) EXCEPT !.extra_stmts = Append(@, ExportAssign(ident, ident))]

\* One identifier found by DestructuringFinder in an exported declaration.
ExportVarIdent(acc, ident) ==
    LET a1 == [acc EXCEPT !.scope.exported_vars = PushExported(@, ident, ident)]
        a2 == init_export(a1, ident)
    IN [a2 EXCEPT !.extra_stmts = Append(@, ExportAssign(ident, ident))]

RECURSIVE ExportVarLoop(_, _)
ExportVarLoop(acc, idents) ==
    IF idents = <<>> THEN acc
    ELSE ExportVarLoop(ExportVarIdent(acc, Head(idents)), Tail(idents))

Acc == [scope |-> scope, exports |-> exports, initialized |-> initialized,
        stmts |-> MarkerStmts(cfg.strict, emitted_esmodule, stmts),
        extra_stmts |-> extra_stmts]

SetAcc(acc) ==
    /\ scope' = acc.scope
    /\ exports' = acc.exports
    /\ initialized' = acc.initialized
    /\ stmts' = acc.stmts
    /\ extra_stmts' = acc.extra_stmts

\* Mutant: only the first identifier the declaration binds is exported.
M_ExportVarFirstOnly(acc, item) ==
    LET names == VarNames(item)
        a1 == [acc EXCEPT
                 !.extra_stmts = Append(@, VarDeclStmt(item.sub, names, item.val)),
                 !.scope = fold_var_decl(@, item.sub, names)]
        a2 == [a1 EXCEPT !.scope.declared_vars = var_collect(@, names)]
    IN ExportVarLoop(a2, SubSeq(names, 1, 1))

\* export var/let/const: the folded declaration, then one export
\* assignment per bound identifier.
ExportVar(acc, item) ==
    LET names == VarNames(item)
        a1 == [acc EXCEPT
                 !.extra_stmts = Append(@, VarDeclStmt(item.sub, names, item.val)),
                 !.scope = fold_var_decl(@, item.sub, names)]
        a2 == [a1 EXCEPT !.scope.declared_vars = var_collect(@, names)]
    IN ExportVarLoop(a2, names)

ItemExportVar ==
    /\ pc = "loop"
    /\ \E item \in {i \in ExportDeclItems : i.kind = "export_var"} :
        /\ CanAppend(input, item)
        /\ input' = Append(input, item)
        /\ SetAcc(ExportVar(Acc, item))
    /\ ExportHead
    /\ UNCHANGED <<cfg, pc, export_alls, out, run>>
    /\ UNCHANGED loadVars


\* export default function / class / interface.  A class (not a function)
\* is pre-initialized; declaration and export assignment go to the body.
DefaultIdent(name) == IF name = "" THEN default_ident ELSE name

\* Mutant: the export assignment is emitted in front of the declaration.
M_ExportDefaultDeclAssignFirst(acc, item) ==
    IF item.kind = "export_default_interface" THEN acc
    ELSE LET ident == DefaultIdent(item.name)
             is_class == item.kind = "export_default_class"
             a1 == IF is_class THEN init_export(acc, "default") ELSE acc
         IN [a1 EXCEPT !.extra_stmts =
                @ \o <<ExportAssign("default", ident), DeclStmt(is_class, ident)>>]

ExportDefaultDecl(acc, item) ==
    CASE item.kind = "export_default_class" ->
            LET a1 == init_export(acc, "default")
                ident == DefaultIdent(item.name)
            IN [a1 EXCEPT !.extra_stmts =
                    @ \o <<DeclStmt(TRUE, ident), ExportAssign("default", ident)>>]
      [] item.kind = "export_default_fn" ->
            LET ident == DefaultIdent(item.name)
            IN [acc EXCEPT !.extra_stmts =
                    @ \o <<DeclStmt(FALSE, ident), ExportAssign("default", ident)>>]
      [] item.kind = "export_default_interface" -> acc

ItemExportDefaultDecl ==
    /\ pc = "loop"
    /\ \E item \in {i \in ExportDefaultItems : i.kind # "export_default_expr"} :
        /\ CanAppend(input, item)
        /\ input' = Append(input, item)
        /\ SetAcc(ExportDefaultDecl(Acc, item))
    /\ ExportHead
    /\ UNCHANGED <<cfg, pc, export_alls, out, run>>
    /\ UNCHANGED loadVars

\* Mutant: the export assignment of the default expression is left out.
M_ExportDefaultExprUnassigned(acc, item) ==
    [init_export(acc, "default") EXCEPT !.extra_stmts =
        Append(@, VarDeclStmt("var", <<default_ident>>, item.val))]

\* export default <expr>: var _default = <expr>; exports.default = _default.
ExportDefaultExpr(acc, item) ==
    LET a1 == init_export(acc, "default")
    IN [a1 EXCEPT !.extra_stmts =
            @ \o <<VarDeclStmt("var", <<default_ident>>, item.val),
                   ExportAssign("default", default_ident)>>]

ItemExportDefaultExpr ==
    /\ pc = "loop"
    /\ \E item \in {i \in ExportDefaultItems : i.kind = "export_default_expr"} :
        /\ CanAppend(input, item)
        /\ input' = Append(input, item)
        /\ SetAcc(ExportDefaultExpr(Acc, item))
    /\ ExportHead
    /\ UNCHANGED <<cfg, pc, export_alls, out, run>>
    /\ UNCHANGED loadVars

\* One specifier of export { orig as exported } [from src].
\* A value that is a plain identifier is exported by assignment in the body
\* and pre-initialized; any other value by a getter in the prelude.
ValueIsIdent(value) == value.is_ident

ExportNamedSpec(acc, sp, src) ==
    LET name == SpecExported(sp)
        a1 == IF sp.orig \in acc.scope.declared_vars
              THEN [acc EXCEPT !.scope.exported_vars = PushExported(@, sp.orig, name)]
              ELSE acc
        a2 == IF src # "" /\ sp.orig = "default" /\ src \notin DOMAIN a1.scope.import_types
              THEN [a1 EXCEPT !.scope.import_types = Put(@, src, FALSE)]
              ELSE a1
        value == IF src # ""
                 THEN [is_ident |-> FALSE, ident |-> "",
                       obj |-> ImportLocalOf(a2.scope.imports, src), prop |-> sp.orig]
                 ELSE fold_ident(a2.scope, sp.orig)
    IN IF ValueIsIdent(value)
       THEN LET a3 == init_export(a2, name)
            IN [a3 EXCEPT !.extra_stmts = Append(@, ExportAssign(name, value.ident))]
       ELSE [a2 EXCEPT !.stmts = Append(@, define_property(name, value.obj, value.prop))]

RECURSIVE ExportNamedLoop(_, _, _)
ExportNamedLoop(acc, specs, src) ==
    IF specs = <<>> THEN acc
    ELSE ExportNamedLoop(ExportNamedSpec(acc, Head(specs), src), Tail(specs), src)

ExportNamed(acc, item) ==
    LET a1 == IF item.src # ""
              THEN [acc EXCEPT !.scope = import_to_export(@, item.src, item.specs # <<>>)]
              ELSE acc
    IN ExportNamedLoop(a1, item.specs, item.src)

ItemExportNamed ==
    /\ pc = "loop"
    /\ \E item \in ExportNamedItems :
        /\ CanAppend(input, item)
        /\ input' = Append(input, item)
        /\ SetAcc(ExportNamed(Acc, item))
    /\ ExportHead
    /\ UNCHANGED <<cfg, pc, export_alls, out, run>>
    /\ UNCHANGED loadVars

\* TsImportEquals / TsExportAssignment / TsNamespaceExport: the arm is empty.
ItemTs ==
    /\ pc = "loop"
    /\ \E item \in TsItems :
        /\ CanAppend(input, item)
        /\ input' = Append(input, item)
    /\ UNCHANGED <<cfg, pc, stmts, extra_stmts, exports, initialized, export_alls,
                   emitted_esmodule, has_export, scope, out, run>>
    /\ UNCHANGED loadVars

\* ------------------------------------------------------------------------
\* Umd::fold_module, after the loop
\* ------------------------------------------------------------------------
\* The four parallel lists: AMD dependency array, factory parameters,
\* CommonJS arguments, global-script arguments.
Lists(deps, params, args, gargs) ==
    [define_deps |-> deps, factory_params |-> params,
     factory_args |-> args, global_factory_args |-> gargs]

Arg(callee, obj, prop) == [callee |-> callee, obj |-> obj, prop |-> prop]

\* Mutant: the exports entry is never made.
M_ExportsEntryNever(has) == Lists(<<>>, <<>>, <<>>, <<>>)

\* Mutant: the exports entry is made whether or not the module exports.
M_ExportsEntryAlways(has) ==
    Lists(<<"exports">>, <<exports_ident>>,
          <<Arg("", "", "exports")>>, <<Arg("", "mod", "exports")>>)

\* exports comes first when the module has an export.
ExportsEntry(has) ==
    IF has
    THEN Lists(<<"exports">>, <<exports_ident>>,
               <<Arg("", "", "exports")>>, <<Arg("", "mod", "exports")>>)
    ELSE Lists(<<>>, <<>>, <<>>, <<>>)

\* var _exportNames = { a: true, ... }: made when an export * exists and
\* the exports list is not empty; `default` is left out of it.
exported_names_ident == "_exportNames"

NeedsExportNames(alls, exps) == alls # <<>> /\ exps # <<>>

ExportNamesStmt(exps) ==
    St("export_names", exported_names_ident, "", "",
       SelectSeq(exps, LAMBDA e : e # "default"), {})

\* Scope::handle_export_all: registers the source and emits the copy loop
\* Object.keys(_src).forEach(key => ...), guarded by _exportNames if given.
handle_export_all_stmt(sc, exported_names, src) ==
    St("export_all", ImportLocalOf(import_to_export(sc, src, TRUE).imports, src),
       exported_names, src, <<>>, {})

RECURSIVE ExportAllLoop(_, _, _)
ExportAllLoop(acc, alls, exported_names) ==
    IF alls = <<>> THEN acc
    ELSE ExportAllLoop(
            [scope |-> import_to_export(acc.scope, Head(alls), TRUE),
             stmts |-> Append(acc.stmts,
                              handle_export_all_stmt(acc.scope, exported_names, Head(alls)))],
            Tail(alls), exported_names)

\* The interop assignment of one import: _m = interopRequireWildcard(_m)
\* or _m = interopRequireDefault(_m); none without an import type or with
\* no_interop.
\* Mutant: the assignment is emitted although interop is disabled.
M_InteropStmtsAlways(types, src, ident, no_interop) ==
    IF src \in DOMAIN types
    THEN <<St("interop", ident, IF types[src] THEN "wildcard" ELSE "default", src, <<>>, {})>>
    ELSE <<>>

InteropStmts(types, src, ident, no_interop) ==
    IF src \in DOMAIN types /\ ~no_interop
    THEN <<St("interop", ident, IF types[src] THEN "wildcard" ELSE "default", src, <<>>, {})>>
    ELSE <<>>

DrainIdent(entry) == IF entry.local = "" THEN local_name_for_src(entry.src) ELSE entry.local

\* Mutant: every entry is put in front of the lists instead of at their end.
M_DrainEntryFront(l, entry) ==
    Lists(<<entry.src>> \o l.define_deps,
          <<DrainIdent(entry)>> \o l.factory_params,
          <<Arg("require", "", entry.src)>> \o l.factory_args,
          <<Arg("", "global", global_name(entry.src))>> \o l.global_factory_args)

\* Mutant: the global-script argument looks the raw specifier up on global.
M_DrainEntrySrcGlobal(l, entry) ==
    Lists(Append(l.define_deps, entry.src),
          Append(l.factory_params, DrainIdent(entry)),
          Append(l.factory_args, Arg("require", "", entry.src)),
          Append(l.global_factory_args, Arg("", "global", entry.src)))

\* One entry of scope.imports: one slot in each of the four lists.
DrainEntry(l, entry) ==
    Lists(Append(l.define_deps, entry.src),
          Append(l.factory_params, DrainIdent(entry)),
          Append(l.factory_args, Arg("require", "", entry.src)),
          Append(l.global_factory_args, Arg("", "global", global_name(entry.src))))

RECURSIVE DrainImports(_, _)
DrainImports(l, imports) ==
    IF imports = <<>> THEN l
    ELSE DrainImports(DrainEntry(l, Head(imports)), Tail(imports))

RECURSIVE DrainInterop(_, _, _)
DrainInterop(imports, types, no_interop) ==
    IF imports = <<>> THEN <<>>
    ELSE InteropStmts(types, Head(imports).src, DrainIdent(Head(imports)), no_interop)
         \o DrainInterop(Tail(imports), types, no_interop)

\* swc_ecma_utils::prepend_stmts: inserted after the directive prologue.
IsDirective(st) == st.op = "use_strict"

RECURSIVE DirectiveCount(_)
DirectiveCount(ss) ==
    IF ss = <<>> \/ ~IsDirective(Head(ss)) THEN 0 ELSE 1 + DirectiveCount(Tail(ss))

prepend_stmts(to, ss) ==
    LET idx == DirectiveCount(to)
    IN SubSeq(to, 1, idx) \o ss \o SubSeq(to, idx + 1, Len(to))

\* Mutant: the body buffer is put in front of the prelude.
M_FactoryBodyBodyFirst(prelude, import_stmts, body) ==
    body \o prepend_stmts(prelude, import_stmts)

\* The factory body: prelude (with the import interop prepended), then body.
FactoryBody(prelude, import_stmts, body) == prepend_stmts(prelude, import_stmts) \o body

\* The single statement of the output module: the wrapper call, with its
\* three branches and the factory function.
WrapperCall(l, body) ==
    [op |-> "call", callee |-> "wrapper", this_arg |-> "this",
     amd |-> [callee |-> "define", deps |-> l.define_deps, factory |-> "factory"],
     commonjs |-> [callee |-> "factory", args |-> l.factory_args],
     global |-> [callee |-> "factory", args |-> l.global_factory_args,
                 assign |-> "mod.exports"],
     factory |-> [params |-> l.factory_params, body |-> body]]

Finish ==
    /\ pc = "loop"
    /\ LET guard == IF NeedsExportNames(export_alls, exports)
                    THEN exported_names_ident ELSE ""
           s1 == IF NeedsExportNames(export_alls, exports)
                 THEN Append(stmts, ExportNamesStmt(exports)) ELSE stmts
           a2 == ExportAllLoop([scope |-> scope, stmts |-> s1], export_alls, guard)
           s3 == IF initialized # {}
                 THEN Append(a2.stmts, initialize_to_undefined(exports_ident, initialized))
                 ELSE a2.stmts
           l == DrainImports(ExportsEntry(has_export), a2.scope.imports)
           import_stmts == DrainInterop(a2.scope.imports, a2.scope.import_types,
                                        cfg.no_interop)
           body == FactoryBody(s3, import_stmts, extra_stmts)
       IN /\ stmts' = body
          /\ extra_stmts' = <<>>
          /\ scope' = [a2.scope EXCEPT !.imports = <<>>]
          /\ out' = <<WrapperCall(l, body)>>
    /\ pc' = "done"
    /\ UNCHANGED <<cfg, input, exports, initialized, export_alls,
                   emitted_esmodule, has_export, run>>
    /\ UNCHANGED loadVars

Next ==
    \/ ItemStmt
    \/ ItemImport
    \/ ItemExportAll
    \/ ItemExportFnClass
    \/ ItemExportVar
    \/ ItemExportDefaultDecl
    \/ ItemExportDefaultExpr
    \/ ItemExportNamed
    \/ ItemTs
    \/ Finish

Spec == Init /\ [][Next]_vars


\* ------------------------------------------------------------------------
\* Execution of the emitted factory body (the AMD branch calls the factory
\* with the exports object and the loaded dependencies).  Values are
\* records [t, v, w]; a function declaration is hoisted, a let/const/class
\* binding cannot be read or written before its declaration has run.
\* ------------------------------------------------------------------------
Val(t, v, w) == [t |-> t, v |-> v, w |-> w]
Undef == Val("undef", "", "")
Prim(v) == Val("prim", v, "")

\* Keys the namespace object of an external module has.
ModuleKeys == {"a", "default"}

HoistedFns(body) ==
    {body[i].name : i \in {j \in 1..Len(body) : body[j].op = "fn_decl"}}

HoistedVars(body) ==
    UNION {Range(body[i].names) :
             i \in {j \in 1..Len(body) : body[j].op = "var_decl" /\ body[j].name = "var"}}

ParamLocals(call) ==
    LET idx == {i \in 1..Len(call.amd.deps) : call.amd.deps[i] # "exports"}
    IN [n \in {call.factory.params[i] : i \in idx} |->
          LET i == CHOOSE k \in idx : call.factory.params[k] = n
          IN Val("module", call.amd.deps[i], "")]

InitialLocals(call) ==
    LET body == call.factory.body
    IN ParamLocals(call)
       @@ [n \in HoistedFns(body) |-> Val("fn", n, "")]
       @@ [n \in HoistedVars(body) |-> Undef]

RunInit(call) ==
    [state |-> "ok", locals |-> InitialLocals(call), exports |-> [k \in {} |-> Undef],
     consts |-> {}, guard |-> {}]

RECURSIVE PutAll(_, _, _)
PutAll(f, keys, v) ==
    IF keys = <<>> THEN f ELSE PutAll(Put(f, Head(keys), v), Tail(keys), v)

Threw(r) == [r EXCEPT !.state = "threw"]

ExecStmt(r, st) ==
    CASE st.op = "use_strict" -> r
      [] st.op = "es_module" -> [r EXCEPT !.exports = Put(@, "__esModule", Prim("true"))]
      [] st.op = "interop" -> r
      [] st.op = "export_names" -> [r EXCEPT !.guard = Range(st.names)]
      [] st.op = "export_all" ->
            LET keys == {k \in ModuleKeys \ {"default", "__esModule"} :
                            ~(st.rhs # "" /\ k \in r.guard)}
            IN [r EXCEPT !.exports =
                   [k \in keys |-> Val("getter", st.name, k)] @@ @]
      [] st.op = "init_undef" ->
            [r EXCEPT !.exports = [k \in st.nset |-> Undef] @@ @]
      [] st.op = "fn_decl" -> r
      [] st.op = "class_decl" -> [r EXCEPT !.locals = Put(@, st.name, Val("class", st.name, ""))]
      [] st.op = "var_decl" ->
            [r EXCEPT !.locals = PutAll(@, st.names, Prim(st.rhs)),
                      !.consts = IF st.name = "const" THEN @ \cup Range(st.names) ELSE @]
      [] st.op = "export_assign" ->
            IF st.rhs \in DOMAIN r.locals
            THEN [r EXCEPT !.exports = Put(@, st.name, r.locals[st.rhs])]
            ELSE Threw(r)
      [] st.op = "define_getter" ->
            [r EXCEPT !.exports = Put(@, st.name, Val("getter", st.src, st.rhs))]
      [] st.op = "assign" ->
            IF st.name \in DOMAIN r.locals /\ st.name \notin r.consts
            THEN [r EXCEPT !.locals = Put(@, st.name, Prim(st.rhs)),
                           !.exports = PutAll(@, st.names, Prim(st.rhs))]
            ELSE Threw(r)

RECURSIVE Exec(_, _)
Exec(r, ss) ==
    IF ss = <<>> \/ r.state = "threw" THEN r
    ELSE Exec(ExecStmt(r, Head(ss)), Tail(ss))

\* The host calls the factory of the emitted module.
Run ==
    /\ pc = "done"
    /\ LET r == Exec(RunInit(out[1]), out[1].factory.body)
       IN run' = [state |-> r.state, locals |-> r.locals, exports |-> r.exports]
    /\ pc' = "ran"
    /\ UNCHANGED <<cfg, input, stmts, extra_stmts, exports, initialized, export_alls,
                   emitted_esmodule, has_export, scope, out>>
    /\ UNCHANGED loadVars

\* The transform under the default configuration, followed by the run of
\* its output.
DefaultConfig == [strict_mode |-> TRUE, strict |-> FALSE, no_interop |-> FALSE]

InitRun == Init /\ cfg = DefaultConfig

NextRun ==
    \/ ItemStmt
    \/ ItemImport
    \/ ItemExportAll
    \/ ItemExportFnClass
    \/ ItemExportVar
    \/ ItemExportDefaultDecl
    \/ ItemExportDefaultExpr
    \/ ItemExportNamed
    \/ ItemTs
    \/ Finish
    \/ Run

SpecRun == InitRun /\ [][NextRun]_vars

\* The loader alone: invocations of main, interleaved step by step.
InitLoad == Init /\ cfg = DefaultConfig

NextLoad ==
    \E p \in Procs :
       \/ CallMain(p)
       \/ Parse(p)
       \/ Lower(p)
       \/ Emit(p)
       \/ ReadOutput(p)
       \/ NewKey(p)
       \/ HostLookup(p)
       \/ CreateElement(p)
       \/ SetInnerHtml(p)
       \/ AppendChild(p)
       \/ Return(p)

SpecLoad == InitLoad /\ [][NextLoad]_vars


\* ------------------------------------------------------------------------
\* Reading the output and the input
\* ------------------------------------------------------------------------
Done == pc \in {"done", "ran"}

Call == out[1]
Deps == Call.amd.deps
Params == Call.factory.params
CjsArgs == Call.commonjs.args
GlobalArgs == Call.global.args
Body == Call.factory.body

BodyIdx(op) == {i \in 1..Len(Body) : Body[i].op = op}

\* The dependency array without the exports entry.
DepSpecifiers == SelectSeq(Deps, LAMBDA d : d # "exports")

SrcsOf(items) == [i \in 1..Len(items) |-> items[i].src]

\* The distinct elements of a list, in the order of their first occurrence.
RECURSIVE FirstSeen(_)
FirstSeen(q) ==
    IF q = <<>> THEN <<>>
    ELSE LET front == FirstSeen(SubSeq(q, 1, Len(q) - 1))
             last == q[Len(q)]
         IN IF last \in Range(front) THEN front ELSE Append(front, last)

IsImport(item) == item.kind = "import"
IsNamedReexport(item) == item.kind = "export_named" /\ item.src # ""
IsExportAll(item) == item.kind = "export_all"

\* Every module specifier the module names, in source order.
SourceOrderSpecifiers(items) ==
    SrcsOf(SelectSeq(items, LAMBDA it : IsImport(it) \/ IsNamedReexport(it) \/ IsExportAll(it)))

\* Imports and named re-exports in source order, then the export-all sources.
DeferredOrderSpecifiers(items) ==
    SrcsOf(SelectSeq(items, LAMBDA it : IsImport(it) \/ IsNamedReexport(it)))
    \o SrcsOf(SelectSeq(items, IsExportAll))

HasExportDecl(items) == \E i \in 1..Len(items) : IsExportDecl(items[i])

\* ------------------------------------------------------------------------
\* C1  Dependency uniqueness
\* ------------------------------------------------------------------------
\* C1 as stated: the dependency list holds every distinct module specifier
\* exactly once, in the order in which the specifiers were first seen in the
\* source.
C1_Original ==
    Done => /\ NoDup(Deps)
            /\ DepSpecifiers = FirstSeen(SourceOrderSpecifiers(input))

\* C1 amended: the dependency list holds every distinct module specifier of
\* an import or re-export exactly once and there is one factory parameter
\* per slot; the specifiers of imports and named re-exports stand in
\* first-seen order, followed by the sources of `export *` declarations not
\* seen before, in their order.
C1_DependencyUniqueness ==
    Done => /\ NoDup(Deps)
            /\ Range(DepSpecifiers) = Range(SourceOrderSpecifiers(input))
            /\ DepSpecifiers = FirstSeen(DeferredOrderSpecifiers(input))
            /\ Len(Params) = Len(Deps)

\* Two imports of one specifier, a second specifier, and an export-all.
C1_Witness ==
    /\ pc = "done"
    /\ \E i, j \in 1..Len(input) :
          /\ i < j /\ IsImport(input[i]) /\ IsImport(input[j])
          /\ input[i].src = input[j].src
    /\ \E i \in 1..Len(input) : IsExportAll(input[i])
    /\ Len(DepSpecifiers) = 2

\* ------------------------------------------------------------------------
\* C2  exports first, then the specifiers
\* ------------------------------------------------------------------------
ExportsPrefix(items) == IF HasExportDecl(items) THEN <<"exports">> ELSE <<>>

\* C2 as stated: the dependency array and the parameter list are the exports
\* entry (iff the module has an export declaration) followed by one entry
\* per distinct specifier in first-seen source order.
C2_Original ==
    Done => /\ Deps = ExportsPrefix(input) \o FirstSeen(SourceOrderSpecifiers(input))
            /\ Len(Params) = Len(Deps)
            /\ (HasExportDecl(input) => Params[1] = exports_ident)

\* C2 amended: the exports entry comes first iff the module has an export
\* declaration, and is followed by one entry per distinct module specifier:
\* those of imports and named re-exports in first-seen order, then the
\* sources of `export *` declarations not already present.
C2_ExportsFirst ==
    Done => /\ Deps = ExportsPrefix(input) \o FirstSeen(DeferredOrderSpecifiers(input))
            /\ Len(Params) = Len(Deps)
            /\ (HasExportDecl(input) <=> (Params # <<>> /\ Params[1] = exports_ident))
            /\ \A i \in 2..Len(Params) : Params[i] # exports_ident

\* import "./m" and an exported function: ["exports", "./m"].
C2_Witness ==
    /\ pc = "done"
    /\ Deps = <<"exports", "./m">>
    /\ \E i \in 1..Len(input) : IsImport(input[i])
    /\ \E i \in 1..Len(input) : input[i].kind = "export_fn"

\* ------------------------------------------------------------------------
\* C3  one list shared by the three branches
\* ------------------------------------------------------------------------
\* The dependency each kind of entry refers to ("exports" or a specifier).
DepOfCjsArg(a) ==
    IF a.callee = "require" THEN a.prop
    ELSE IF a.callee = "" /\ a.obj = "" /\ a.prop = "exports" THEN "exports" ELSE "?"

DepOfGlobalArg(a) ==
    IF a.obj = "mod" /\ a.prop = "exports" THEN "exports"
    ELSE IF a.obj = "global" /\ \E s \in Srcs : global_name(s) = a.prop
         THEN CHOOSE s \in Srcs : global_name(s) = a.prop
         ELSE "?"

\* C3: the AMD dependency array, the factory parameters, the CommonJS
\* arguments and the global-script arguments have one length, their i-th
\* entries refer to the same dependency, and the factory body addresses a
\* dependency by the parameter in its slot.
C3_ParallelLists ==
    Done =>
      /\ Len(Params) = Len(Deps)
      /\ Len(CjsArgs) = Len(Deps)
      /\ Len(GlobalArgs) = Len(Deps)
      /\ \A i \in 1..Len(Deps) :
            /\ DepOfCjsArg(CjsArgs[i]) = Deps[i]
            /\ DepOfGlobalArg(GlobalArgs[i]) = Deps[i]
            /\ (Params[i] = exports_ident) <=> (Deps[i] = "exports")
      /\ \A k \in BodyIdx("interop") \cup BodyIdx("export_all") :
            \E i \in 1..Len(Deps) : Deps[i] = Body[k].src /\ Params[i] = Body[k].name

C3_Witness ==
    /\ pc = "done"
    /\ Len(Deps) = 3
    /\ Deps[1] = "exports"
    /\ BodyIdx("interop") # {}
    /\ BodyIdx("export_all") # {}

\* ------------------------------------------------------------------------
\* C4  no imports and no exports
\* ------------------------------------------------------------------------
PlainModule(items) ==
    \A i \in 1..Len(items) : items[i].kind \in {"stmt_assign", "stmt_var"}

\* C4: a module without imports and exports yields exactly one top-level
\* statement, the wrapper call with its AMD, CommonJS and global branches,
\* and all four lists are empty.
C4_EmptyLists ==
    (Done /\ PlainModule(input)) =>
      /\ Len(out) = 1
      /\ Call.op = "call" /\ Call.callee = "wrapper"
      /\ Call.amd.callee = "define" /\ Call.amd.factory = "factory"
      /\ Call.commonjs.callee = "factory"
      /\ Call.global.callee = "factory"
      /\ Deps = <<>> /\ Params = <<>> /\ CjsArgs = <<>> /\ GlobalArgs = <<>>

C4_Witness ==
    /\ pc = "done"
    /\ PlainModule(input)
    /\ Len(input) = 2
    /\ Len(out) = 1


\* ------------------------------------------------------------------------
\* C5  the __esModule marker
\* ------------------------------------------------------------------------
MarkerIdx == BodyIdx("es_module")

\* C5 as stated: with an export and without config.strict the marker is
\* emitted exactly once and only the directive prologue stands before it;
\* without an export it is not emitted.
C5_Original ==
    Done =>
      /\ (HasExportDecl(input) /\ ~cfg.strict) =>
            /\ Cardinality(MarkerIdx) = 1
            /\ \A m \in MarkerIdx : \A k \in 1..(m - 1) : Body[k].op = "use_strict"
      /\ ~HasExportDecl(input) => MarkerIdx = {}

\* C5 amended: with an export and without config.strict the marker is
\* emitted exactly once and precedes every other statement of the factory
\* body except the "use strict" directive and the import interop
\* assignments, which are prepended in front of it; without an export it is
\* not emitted.
C5_MarkerFirst ==
    Done =>
      /\ (HasExportDecl(input) /\ ~cfg.strict) =>
            /\ Cardinality(MarkerIdx) = 1
            /\ \A m \in MarkerIdx : \A k \in 1..(m - 1) :
                  Body[k].op \in {"use_strict", "interop"}
      /\ ~HasExportDecl(input) => MarkerIdx = {}

\* Two export declarations, an interop assignment in front of the marker.
C5_Witness ==
    /\ pc = "done"
    /\ ~cfg.strict
    /\ Cardinality({i \in 1..Len(input) : IsExportDecl(input[i])}) = 2
    /\ \E m \in MarkerIdx : \E k \in BodyIdx("interop") : k < m
    /\ BodyIdx("export_assign") # {}

\* ------------------------------------------------------------------------
\* C6  export * is deferred and guarded by every named export
\* ------------------------------------------------------------------------
ExplicitNamedExports(items) == ExportedIn(items) \ {"default"}

HasExportAll(items) == \E i \in 1..Len(items) : IsExportAll(items[i])

\* C6 as stated: no copy loop is emitted while items are still being
\* classified, and every copy loop is guarded by an _exportNames object
\* that holds every explicitly named export of the module.
C6_Claim ==
    /\ pc = "loop" =>
          \A i \in 1..Len(stmts) : stmts[i].op # "export_all"
    /\ (Done /\ HasExportAll(input)) =>
          \A n \in ExplicitNamedExports(input) : \A k \in BodyIdx("export_all") :
             /\ Body[k].rhs = exported_names_ident
             /\ \E g \in BodyIdx("export_names") : g < k /\ n \in Range(Body[g].names)

\* ------------------------------------------------------------------------
\* C7  when the guard object exists
\* ------------------------------------------------------------------------
\* C7 as stated: one copy statement per export-all; the guard object is
\* created exactly when the module has an export-all and a named export,
\* and without it the copy statements are unguarded.
C7_Claim ==
    Done =>
      /\ Cardinality(BodyIdx("export_all"))
           = Cardinality({i \in 1..Len(input) : IsExportAll(input[i])})
      /\ (BodyIdx("export_names") # {})
           <=> (HasExportAll(input) /\ ExplicitNamedExports(input) # {})
      /\ BodyIdx("export_names") = {} =>
            \A k \in BodyIdx("export_all") : Body[k].rhs = ""

\* ------------------------------------------------------------------------
\* C8  pre-initialization to undefined
\* ------------------------------------------------------------------------
SpecNames(item) == {SpecExported(item.specs[i]) : i \in 1..Len(item.specs)}

\* The names C8 lists: exported variables, `export { }` names, a default
\* class or default expression.
ListedPreInit(items) ==
    UNION {CASE items[i].kind = "export_var" -> Range(VarNames(items[i]))
             [] items[i].kind = "export_named" -> SpecNames(items[i])
             [] items[i].kind \in {"export_default_class", "export_default_expr"} -> {"default"}
             [] OTHER -> {} : i \in 1..Len(items)}

\* A specifier resolves to a member of an import when its local name was
\* bound by an earlier named or default import.
ResolvesToImport(items, i, orig) ==
    \E j \in 1..(i - 1) :
       IsImport(items[j]) /\ items[j].sub \in {"named", "default"} /\ items[j].name = orig

LocalSpecNames(items, i) ==
    IF items[i].src # "" THEN {}
    ELSE {SpecExported(items[i].specs[k]) :
            k \in {q \in 1..Len(items[i].specs) :
                     ~ResolvesToImport(items, i, items[i].specs[q].orig)}}

\* The names that are pre-initialized: as listed, but of the `export { }`
\* names only those without source whose value is a local identifier.
AmendedPreInit(items) ==
    UNION {CASE items[i].kind = "export_var" -> Range(VarNames(items[i]))
             [] items[i].kind = "export_named" -> LocalSpecNames(items, i)
             [] items[i].kind \in {"export_default_class", "export_default_expr"} -> {"default"}
             [] OTHER -> {} : i \in 1..Len(items)}

IsModuleStatement(st) == st.op \in {"var_decl", "fn_decl", "class_decl", "assign"}

\* Statement k of the body may define or read property n of exports.
Touches(k, n) ==
    \/ Body[k].op \in {"export_assign", "define_getter"} /\ Body[k].name = n
    \/ /\ Body[k].op = "export_all"
       /\ n # "default"
       /\ ~(/\ Body[k].rhs = exported_names_ident
            /\ \E g \in BodyIdx("export_names") : g < k /\ n \in Range(Body[g].names))

PreInitialized(n) ==
    \E k \in BodyIdx("init_undef") :
       /\ n \in Body[k].nset
       /\ \A j \in 1..Len(Body) : IsModuleStatement(Body[j]) => k < j
       /\ \A j \in 1..(k - 1) : ~Touches(j, n)

\* C8 as stated, for the names it lists.
C8_Original ==
    Done => \A n \in ListedPreInit(input) : PreInitialized(n)

\* C8 amended: every name exported by an exported variable declaration, by
\* an `export { }` specifier without source whose value is a local
\* identifier, or by a default class or default expression is assigned
\* undefined by one statement that precedes every statement of the module,
\* and no statement before it reads or defines such a name; no other
\* exported name (class and function declarations, specifiers that resolve
\* to a member of an import) is pre-initialized.
C8_PreInit ==
    Done =>
      /\ \A n \in AmendedPreInit(input) : PreInitialized(n)
      /\ Cardinality(BodyIdx("init_undef")) <= 1
      /\ \A k \in BodyIdx("init_undef") : Body[k].nset = AmendedPreInit(input)

\* An exported variable, a copy loop and a function export assignment in
\* front of the pre-initialization.
C8_Witness ==
    /\ pc = "done"
    /\ \E k \in BodyIdx("init_undef") :
          /\ "a" \in Body[k].nset
          /\ \E j \in BodyIdx("export_all") : j < k
          /\ \E j \in BodyIdx("export_assign") : k < j /\ Body[j].name = "a"
    /\ \E i \in 1..Len(input) : input[i].kind = "export_var"
    /\ \E i \in 1..Len(input) : input[i].kind = "export_class"


\* ------------------------------------------------------------------------
\* C9  live bindings
\* ------------------------------------------------------------------------
Ran == pc = "ran" /\ run.state = "ok"

\* Item j is the last top-level assignment to x.
LastAssign(items, j, x) ==
    /\ items[j].kind = "stmt_assign" /\ items[j].name = x
    /\ \A k \in (j + 1)..Len(items) :
          ~(items[k].kind = "stmt_assign" /\ items[k].name = x)

\* C9: for a binding exported by `export let` that a later top-level
\* statement reassigns, the exports property holds the last assigned value
\* once the factory body has executed.
C9_LiveBinding ==
    Ran =>
      \A i, j \in 1..Len(input) : \A x \in Names :
         (/\ i < j
          /\ input[i].kind = "export_var" /\ input[i].sub # "const"
          /\ x \in Range(VarNames(input[i]))
          /\ LastAssign(input, j, x))
         => /\ x \in DOMAIN run.exports
            /\ run.exports[x] = Prim(input[j].val)
            /\ run.exports[x] = run.locals[x]

\* export let a = 0; a = 1; a = 2 has run: exports.a is 2.
C9_Witness ==
    /\ Ran
    /\ Len(input) = 3
    /\ input[1].kind = "export_var" /\ input[1].sub = "let"
    /\ input[2].kind = "stmt_assign" /\ input[2].val = "1"
    /\ input[3].kind = "stmt_assign" /\ input[3].val = "2"
    /\ run.exports["a"] = Prim("2")

\* ------------------------------------------------------------------------
\* C10  export completeness
\* ------------------------------------------------------------------------
\* Statement k defines property n of exports (not the pre-initialization).
Defines(k, n) ==
    Body[k].op \in {"export_assign", "define_getter"} /\ Body[k].name = n

\* C10: for every exported name of the module the factory body holds a
\* statement that defines the property on exports, and the property is
\* defined once the factory has executed.
C10_ExportCompleteness ==
    /\ Done => \A n \in ExportedIn(input) : \E k \in 1..Len(Body) : Defines(k, n)
    /\ Ran => \A n \in ExportedIn(input) :
                 n \in DOMAIN run.exports /\ run.exports[n] # Undef

\* A function, a default expression and a re-exported name, after the run.
C10_Witness ==
    /\ Ran
    /\ ExportedIn(input) = {"a", "default", "b"}
    /\ \E i \in 1..Len(input) : input[i].kind = "export_fn"
    /\ \E i \in 1..Len(input) : input[i].kind = "export_default_expr"
    /\ \E i \in 1..Len(input) : IsNamedReexport(input[i])

\* ------------------------------------------------------------------------
\* C11  default exports
\* ------------------------------------------------------------------------
IsDefaultExport(item) ==
    item.kind \in {"export_default_fn", "export_default_class", "export_default_expr"}

\* Statement st declares, un-exported, the value of default export `item`
\* under the identifier `ident`.
DeclaresDefault(st, item, ident) ==
    CASE item.kind = "export_default_fn" -> st.op = "fn_decl" /\ st.name = ident
      [] item.kind = "export_default_class" -> st.op = "class_decl" /\ st.name = ident
      [] item.kind = "export_default_expr" ->
            st.op = "var_decl" /\ st.names = <<ident>> /\ st.rhs = item.val
      [] OTHER -> FALSE

\* The value the declaration of default export `item` produces.
DefaultValue(item, ident) ==
    CASE item.kind = "export_default_fn" -> Val("fn", ident, "")
      [] item.kind = "export_default_class" -> Val("class", ident, "")
      [] OTHER -> Prim(item.val)

\* The identifier a default export is declared under.
OwnNameOrDefault(item) == IF item.name = "" THEN "_default" ELSE item.name

\* The declaration under `ident` with exports.default = ident right after it.
DefaultEmittedUnder(item, ident) ==
    \E k \in 1..(Len(Body) - 1) :
       /\ DeclaresDefault(Body[k], item, ident)
       /\ Body[k + 1].op = "export_assign"
       /\ Body[k + 1].name = "default"
       /\ Body[k + 1].rhs = ident

\* C11 as stated: every default export is declared under the synthesized
\* identifier _default, followed by exports.default = _default.
C11_Original ==
    Done => \A i \in 1..Len(input) :
               IsDefaultExport(input[i]) => DefaultEmittedUnder(input[i], "_default")

\* The top-level assignments to ident in front of item i.
AssignsBefore(items, i, ident) ==
    {j \in 1..(i - 1) : items[j].kind = "stmt_assign" /\ items[j].name = ident}

Last(S) == CHOOSE j \in S : \A k \in S : k <= j

\* What the identifier of default export i holds when the statement
\* exports.default = ident is executed: the value the declaration produced,
\* or, for a (hoisted) function declaration, the value an earlier statement
\* of the module assigned to its name.
DefaultRead(items, i) ==
    LET ident == OwnNameOrDefault(items[i])
        before == AssignsBefore(items, i, ident)
    IN IF before = {} THEN DefaultValue(items[i], ident)
       ELSE Prim(items[Last(before)].val)

\* C11 amended: every default export (function, class, expression) is
\* declared un-exported under an identifier, the declaration's own name when
\* it has one and the synthesized _default otherwise, the statement
\* exports.default = <that identifier> follows the declaration immediately,
\* no other statement defines exports.default, and once the factory has run
\* exports.default is what the identifier held when that statement was
\* executed: the value the declaration produced unless an earlier statement
\* of the module assigned to the name of a default function; a later
\* assignment to the name does not change exports.default.
C11_DefaultExport ==
    /\ Done => \A i \in 1..Len(input) :
          IsDefaultExport(input[i]) =>
             /\ DefaultEmittedUnder(input[i], OwnNameOrDefault(input[i]))
             /\ Cardinality({k \in 1..Len(Body) : Defines(k, "default")}) = 1
    /\ Ran => \A i \in 1..Len(input) :
          IsDefaultExport(input[i]) =>
             /\ "default" \in DOMAIN run.exports
             /\ run.exports["default"] = DefaultRead(input, i)

\* a = 1; export default function a() {}; a = 2 has run: the declaration
\* is emitted under its own name with exports.default = a right after it,
\* and exports.default is 1, neither the function nor 2.
C11_Witness ==
    /\ Ran
    /\ Len(input) = 3
    /\ input[1].kind = "stmt_assign" /\ input[1].val = "1"
    /\ input[2].kind = "export_default_fn" /\ input[2].name = "a"
    /\ input[3].kind = "stmt_assign" /\ input[3].val = "2"
    /\ DefaultEmittedUnder(input[2], "a")
    /\ run.exports["default"] = Prim("1")

\* ------------------------------------------------------------------------
\* C12  exported function declarations
\* ------------------------------------------------------------------------
ExportedFns(items) ==
    {items[i].name : i \in {j \in 1..Len(items) : items[j].kind = "export_fn"}}

FnDeclIdx(f) == {j \in BodyIdx("fn_decl") : Body[j].name = f}

\* Export assignments whose right-hand side is the identifier f.
AssignsFrom(f) == {k \in BodyIdx("export_assign") : Body[k].rhs = f}

\* C12 as stated: the declaration of an exported function stands earlier in
\* the factory body than every export assignment that references it.
C12_Original ==
    Done => \A f \in ExportedFns(input) :
               \A j \in FnDeclIdx(f) : \A k \in AssignsFrom(f) : j < k

\* C12 amended: an exported function f has one un-exported declaration and
\* one export assignment exports.f = f; the assignment stands in the prelude,
\* earlier in the factory body than the declaration and than every statement
\* of the module, and reads the hoisted function: unless a copy loop or a
\* reassignment of f intervenes, exports.f is the function f after the run.
C12_FunctionExport ==
    /\ Done => \A f \in ExportedFns(input) :
          /\ Cardinality(FnDeclIdx(f)) = 1
          /\ Cardinality({k \in AssignsFrom(f) : Body[k].name = f}) = 1
          /\ \A k \in AssignsFrom(f) : Body[k].name = f =>
                \A j \in 1..Len(Body) : IsModuleStatement(Body[j]) => k < j
    /\ Ran => \A f \in ExportedFns(input) :
          (/\ ~HasExportAll(input)
           /\ \A i \in 1..Len(input) :
                 ~(input[i].kind = "stmt_assign" /\ input[i].name = f))
          => /\ f \in DOMAIN run.exports
             /\ run.exports[f] = Val("fn", f, "")

\* An import; export { a as b }; export function a() {} has run: both
\* export assignments stand in front of the declaration.
C12_Witness ==
    /\ pc = "ran"
    /\ Len(input) = 3
    /\ input[1].kind = "import"
    /\ input[2].kind = "export_named"
    /\ input[3].kind = "export_fn"
    /\ \E j \in FnDeclIdx("a") : \A k \in AssignsFrom("a") : k < j
    /\ Cardinality(AssignsFrom("a")) = 2
    /\ run.exports["a"] = Val("fn", "a", "")
    /\ run.exports["b"] = Val("fn", "a", "")

\* ------------------------------------------------------------------------
\* C13  exported class declarations
\* ------------------------------------------------------------------------
ExportedClasses(items) ==
    {items[i].name : i \in {j \in 1..Len(items) : items[j].kind = "export_class"}}

\* The body item an input item leaves in the body buffer: its kind and the
\* first identifier it binds or assigns (<<>> when it leaves none).
BodyItemOf(item) ==
    CASE item.kind = "stmt_assign" -> <<"assign", item.name>>
      [] item.kind = "stmt_var" -> <<"var_decl", item.name>>
      [] item.kind = "export_var" -> <<"var_decl", VarNames(item)[1]>>
      [] item.kind = "export_fn" -> <<"fn_decl", item.name>>
      [] item.kind = "export_class" -> <<"class_decl", item.name>>
      [] item.kind = "export_default_fn" -> <<"fn_decl", OwnNameOrDefault(item)>>
      [] item.kind = "export_default_class" -> <<"class_decl", OwnNameOrDefault(item)>>
      [] item.kind = "export_default_expr" -> <<"var_decl", "_default">>
      [] OTHER -> <<>>

BodyItemOfStmt(st) ==
    <<st.op, IF st.op = "var_decl" THEN st.names[1] ELSE st.name>>

RECURSIVE BodyItemsOfInput(_)
BodyItemsOfInput(items) ==
    IF items = <<>> THEN <<>>
    ELSE (IF BodyItemOf(Head(items)) = <<>> THEN <<>> ELSE <<BodyItemOf(Head(items))>>)
         \o BodyItemsOfInput(Tail(items))

RECURSIVE BodyItemsOfOutput(_)
BodyItemsOfOutput(ss) ==
    IF ss = <<>> THEN <<>>
    ELSE (IF IsModuleStatement(Head(ss)) THEN <<BodyItemOfStmt(Head(ss))>> ELSE <<>>)
         \o BodyItemsOfOutput(Tail(ss))

\* C13: an exported class declaration keeps its position among the plain
\* statements and the other declarations of the module, its export
\* assignment is the statement right after it and never stands in the
\* prelude, whereas the export assignment of an exported function stands in
\* the prelude, in front of every statement of the module.
C13_ClassNotPromoted ==
    /\ pc = "loop" =>
          \A i \in 1..Len(stmts) :
             ~(stmts[i].op = "export_assign" /\ stmts[i].name \in ExportedClasses(input))
    /\ Done =>
          /\ BodyItemsOfOutput(Body) = BodyItemsOfInput(input)
          /\ \A c \in ExportedClasses(input) :
                /\ \E k \in 1..(Len(Body) - 1) :
                      /\ Body[k].op = "class_decl" /\ Body[k].name = c
                      /\ Body[k + 1].op = "export_assign"
                      /\ Body[k + 1].name = c /\ Body[k + 1].rhs = c
                /\ Cardinality({k \in BodyIdx("export_assign") : Body[k].name = c}) = 1
          /\ \A f \in ExportedFns(input) :
                \A k \in BodyIdx("export_assign") : Body[k].name = f =>
                   \A j \in 1..Len(Body) : IsModuleStatement(Body[j]) => k < j

\* export function a() {}; a = 1; export class b {}: the class follows the
\* assignment, the function's export assignment precedes both.
C13_Witness ==
    /\ pc = "done"
    /\ Len(input) = 3
    /\ input[1].kind = "export_fn"
    /\ input[2].kind = "stmt_assign"
    /\ input[3].kind = "export_class"
    /\ \E k \in BodyIdx("class_decl") :
          /\ k + 1 = Len(Body)
          /\ Body[k - 1].op = "assign"
          /\ \E q \in BodyIdx("export_assign") : q < k - 1 /\ Body[q].name = "a"

\* ------------------------------------------------------------------------
\* C14  exports that alias an existing binding
\* ------------------------------------------------------------------------
\* The factory parameter bound to module specifier src.
ParamOf(src) == Params[CHOOSE i \in 1..Len(Deps) : Deps[i] = src]

\* The export of specifier sp of an `export { } [from src]` declaration is a
\* getter; with a source it reads member sp.orig of the parameter of src.
DefinedByGetter(sp, src) ==
    \E k \in BodyIdx("define_getter") :
       /\ Body[k].name = SpecExported(sp)
       /\ src # "" => /\ Body[k].src \in {ParamOf(src), local_name_for_src(src)}
                      /\ Body[k].rhs = sp.orig

\* What reading property n of exports yields after the run: a getter reads
\* its source at the time of the read, a data property holds a value.
Observed(n) ==
    IF run.exports[n].t = "getter"
    THEN Val("member", run.exports[n].v, run.exports[n].w)
    ELSE run.exports[n]

\* What the source binding of a specifier without `from` holds after the run.
SourceValue(orig) == run.locals[orig]

\* C14 as stated: every specifier of `export { }`, with or without source,
\* is defined by a getter, a re-export reading a member of the import
\* binding of its source; after the run the export of a local binding shows
\* the value the binding holds then.
C14_Claim ==
    /\ Done => \A i \in 1..Len(input) : input[i].kind = "export_named" =>
          \A q \in 1..Len(input[i].specs) :
             DefinedByGetter(input[i].specs[q], input[i].src)
    /\ Ran => \A i \in 1..Len(input) :
          (input[i].kind = "export_named" /\ input[i].src = "") =>
             \A q \in 1..Len(input[i].specs) :
                LET sp == input[i].specs[q]
                IN (sp.orig \in DOMAIN run.locals
                    /\ run.locals[sp.orig].t \in {"prim", "fn", "class", "undef"})
                   => Observed(SpecExported(sp)) = SourceValue(sp.orig)

\* ------------------------------------------------------------------------
\* C19  declarations the lowering does not represent
\* ------------------------------------------------------------------------
TsDecls(items) == {i \in 1..Len(items) : items[i].kind = "ts"}

\* Top-level items of the output module that are TypeScript declarations
\* of sub-kind d.
PassedThrough(d) == {k \in 1..Len(out) : out[k].op = "ts" /\ out[k].callee = d}

\* C19 as stated: every TypeScript `import =`, `export =` and namespace
\* export declaration of the input is an item of the output module.
C19_Claim ==
    Done => \A i \in TsDecls(input) : PassedThrough(input[i].sub) # {}

\* ------------------------------------------------------------------------
\* C20  import interop
\* ------------------------------------------------------------------------
ImportedSrcs(items) ==
    {items[i].src : i \in {j \in 1..Len(items) : IsImport(items[j])}}

ImportedAs(items, src, form) ==
    \E i \in 1..Len(items) :
       IsImport(items[i]) /\ items[i].src = src /\ items[i].sub = form

InteropIdx(src) == {k \in BodyIdx("interop") : Body[k].src = src}

\* Only the directive prologue and interop assignments stand before k.
LeadsBody(k) == \A j \in 1..(k - 1) : Body[j].op \in {"use_strict", "interop"}

\* C20 as stated: with interop enabled every imported specifier has exactly
\* one interop assignment, in front of the other statements of the factory
\* body, with the wildcard helper for a namespace import and the default
\* helper for a default import; with interop disabled there is none.
C20_Original ==
    Done =>
      IF cfg.no_interop THEN BodyIdx("interop") = {}
      ELSE \A s \in ImportedSrcs(input) :
              /\ Cardinality(InteropIdx(s)) = 1
              /\ \A k \in InteropIdx(s) :
                    /\ LeadsBody(k)
                    /\ ImportedAs(input, s, "ns") => Body[k].rhs = "wildcard"
                    /\ (ImportedAs(input, s, "default") /\ ~ImportedAs(input, s, "ns"))
                          => Body[k].rhs = "default"

\* Item i asks for the default or the namespace of src.
AsksInterop(items, i, src) ==
    /\ items[i].src = src
    /\ \/ IsImport(items[i]) /\ items[i].sub \in {"ns", "default"}
       \/ /\ items[i].kind = "export_named"
          /\ \E q \in 1..Len(items[i].specs) : items[i].specs[q].orig = "default"

\* Item j reads named members of src.
ReadsMembers(items, j, src) ==
    /\ items[j].src = src
    /\ \/ IsImport(items[j]) /\ items[j].sub = "named"
       \/ IsExportAll(items[j])

\* The helper the specifier gets: none, "default" or "wildcard".
ExpectedInterop(items, src) ==
    IF ~\E i \in 1..Len(items) : AsksInterop(items, i, src) THEN "none"
    ELSE IF \/ ImportedAs(items, src, "ns")
            \/ \E i, j \in 1..Len(items) :
                  i < j /\ AsksInterop(items, i, src) /\ ReadsMembers(items, j, src)
         THEN "wildcard"
         ELSE "default"

\* C20 amended: with interop enabled a specifier has exactly one interop
\* assignment when a declaration asks for its namespace or its default (a
\* namespace import, a default import, a re-export of `default`), and none
\* otherwise; the assignment is to the factory parameter of the specifier,
\* only the directive prologue and other interop assignments stand before
\* it, and it uses the wildcard helper when the specifier is imported as a
\* namespace or a named import or export-all of it follows the declaration
\* that asked, the default helper otherwise.  With interop disabled there
\* is no interop assignment.
C20_Interop ==
    Done =>
      IF cfg.no_interop THEN BodyIdx("interop") = {}
      ELSE \A s \in Srcs :
              /\ Cardinality(InteropIdx(s))
                   = (IF ExpectedInterop(input, s) = "none" THEN 0 ELSE 1)
              /\ \A k \in InteropIdx(s) :
                    /\ LeadsBody(k)
                    /\ Body[k].rhs = ExpectedInterop(input, s)
                    /\ Body[k].name = ParamOf(s)

\* import d from "./m"; export * from "./m"; import "./n": one wildcard
\* assignment for "./m" after the directive, none for "./n".
C20_Witness ==
    /\ pc = "done"
    /\ ~cfg.no_interop
    /\ Len(input) = 3
    /\ ImportedAs(input, "./m", "default")
    /\ ImportedAs(input, "./n", "bare")
    /\ HasExportAll(input)
    /\ Body[1].op = "use_strict"
    /\ Body[2].op = "interop" /\ Body[2].rhs = "wildcard" /\ Body[2].src = "./m"
    /\ InteropIdx("./n") = {}

\* ------------------------------------------------------------------------
\* Reading the loader's state
\* ------------------------------------------------------------------------
\* Invocations that have called keyid::new.
Drawers == {p \in Procs : calls[p].keyid # NoKey}

\* Invocations that are over, by what main handed back.
Returned(kind) == {p \in Procs : calls[p].pc = "returned" /\ calls[p].result.kind = kind}

\* Script elements of the document head that invocation p appended.
ScriptsOf(p) == {i \in 1..Len(head) : head[i].call = p}

\* ------------------------------------------------------------------------
\* C15  load keys
\* ------------------------------------------------------------------------
\* C15: under every interleaving of the invocations the keys drawn so far
\* are exactly 0 .. KEYID-1, one per call of keyid::new (so every call got
\* the previous value of the counter and raised it by one, and no two calls
\* got the same key), and no two invocations return the same key.
C15_UniqueKeys ==
    /\ Cardinality(Drawers) = KEYID
    /\ {calls[p].keyid : p \in Drawers} = 0..(KEYID - 1)
    /\ \A p, q \in Returned("ok") : p # q => calls[p].result.key # calls[q].result.key
    /\ \A p \in Returned("ok") : calls[p].result.key \in 0..(KEYID - 1)

\* Two invocations have returned; the first one drew its key second.
C15_Witness ==
    /\ Returned("ok") = {1, 2}
    /\ calls[1].result.key = 1
    /\ calls[2].result.key = 0
    /\ KEYID = 2

\* ------------------------------------------------------------------------
\* C16  all or nothing
\* ------------------------------------------------------------------------
\* C16: an invocation that returned an error returned no key and appended
\* no script element; an invocation that returned a key has appended one
\* script element, and the element has its content.
C16_AllOrNothing ==
    /\ \A p \in Returned("err") :
          /\ calls[p].result.key = NoKey
          /\ ScriptsOf(p) = {}
    /\ \A p \in Returned("ok") :
          /\ calls[p].result.key # NoKey
          /\ Cardinality(ScriptsOf(p)) = 1
          /\ \A i \in ScriptsOf(p) : head[i].inner_html # <<>>
    /\ \A p \in Procs :
          (ScriptsOf(p) # {}) => calls[p].pc \in {"return", "returned"}

\* One invocation failed in append_child after it had drawn key 0, the
\* other one returned key 1 and its element is the only one in the head.
C16_Witness ==
    /\ Returned("err") # {}
    /\ Returned("ok") # {}
    /\ \E p \in Returned("err") : calls[p].result.err = "JSError" /\ calls[p].keyid = 0
    /\ \E p \in Returned("ok") : calls[p].result.key = 1
    /\ Len(head) = 1

\* ------------------------------------------------------------------------
\* C17  failures are returned, not thrown
\* ------------------------------------------------------------------------
\* C17 as stated: no invocation ends in a panic.
C17_Claim ==
    \A p \in Procs : calls[p].result.kind # "panic"

\* ------------------------------------------------------------------------
\* C18  the injected text
\* ------------------------------------------------------------------------
DefineOpen == <<"d", "e", "f", "i", "n", "e", "(">>

\* The text starts with `define(`; what follows it.
StartsWithDefine(text) == Len(text) >= 7 /\ SubSeq(text, 1, 7) = DefineOpen

AfterDefine(text) == [i \in 1..(Len(text) - 7) |-> text[i + 7]]

\* The text the printer produced for the module of invocation p.
PrintedOf(p) == emit_module(calls[p].src.shape)

\* C18: for an invocation that returned key k the printed module is
\* `define(` followed by some rest, and the text of its script element is
\* (the UTF-8 encoding of) `define(` k `, ` followed by the same rest.
C18_InjectedText ==
    \A p \in Returned("ok") :
       /\ StartsWithDefine(PrintedOf(p))
       /\ \A i \in ScriptsOf(p) :
             head[i].inner_html
               = as_bytes(DefineOpen \o Digits(calls[p].result.key) \o <<",", " ">>
                            \o AfterDefine(PrintedOf(p)))

\* The module with an import was given key 1: define(1, ["./m"], ...
C18_Witness ==
    /\ \E p \in Returned("ok") :
          /\ calls[p].result.key = 1
          /\ calls[p].src.shape = "import"
          /\ \E i \in ScriptsOf(p) :
                /\ SubSeq(head[i].inner_html, 1, 10)
                     = as_bytes(<<"d", "e", "f", "i", "n", "e", "(", "1", ",", " ">>)
                /\ head[i].inner_html[11] = Utf8Code["["]

\* ------------------------------------------------------------------------
\* C21  host failures are local to one invocation
\* ------------------------------------------------------------------------
HostErrors == {"InvalidWindow", "InvalidDocument", "InvalidHead", "JSError"}

\* The input parses and the lowering has an arm for all of it.
ValidInput(src) == src.syntax \in {"ok", "recovered"} /\ amd_lowers(src.shape)

InFlight(p) == calls[p].pc \notin {"idle", "returned"}

\* One step of invocation p.
StepOf(p) ==
    \/ CallMain(p) \/ Parse(p) \/ Lower(p) \/ Emit(p) \/ ReadOutput(p) \/ NewKey(p)
    \/ HostLookup(p) \/ CreateElement(p) \/ SetInnerHtml(p) \/ AppendChild(p)
    \/ Return(p)

\* A step of p that is no failure: p goes on, or returns its key.
Advances(p) == StepOf(p) /\ calls'[p].result.kind \notin {"err", "panic"}

\* Invocations that ended in a host failure.
HostFailed == {q \in Returned("err") : calls[q].result.err \in HostErrors}

\* C21: whatever other invocations have failed, an invocation can be
\* started, an invocation on valid input can take its next step without
\* failing, and when it has returned it has injected its script and its key
\* differs from the key every other invocation drew or returned.
C21_HostFailureLocal ==
    \A p \in Procs :
       /\ calls[p].pc = "idle" => ENABLED CallMain(p)
       /\ (InFlight(p) /\ ValidInput(calls[p].src)) => ENABLED Advances(p)
       /\ p \in Returned("ok") =>
             /\ Cardinality(ScriptsOf(p)) = 1
             /\ \A q \in Procs \ {p} :
                   /\ calls[q].keyid # calls[p].result.key
                   /\ calls[q].result.key # calls[p].result.key

\* An invocation failed for a missing head after it drew key 0; the other
\* one returned key 1 and injected its script.
C21_Witness ==
    /\ \E q \in HostFailed : calls[q].result.err = "InvalidHead" /\ calls[q].keyid = 0
    /\ \E p \in Returned("ok") : calls[p].result.key = 1 /\ ScriptsOf(p) # {}

\* ------------------------------------------------------------------------
\* C22  diagnostics of the parser
\* ------------------------------------------------------------------------
\* The parser has run for invocation p.
Parsed(p) == calls[p].pc \notin {"idle", "parse"}

\* C22 as stated: once the parser has run, the recoverable errors it
\* reported have been emitted and the invocation goes on; only an input the
\* parser fails on ends the invocation, with DiagnosticEmitted, no key and
\* no script.
C22_Claim ==
    \A p \in Procs :
       /\ (Parsed(p) /\ calls[p].src.syntax = "recovered")
             => /\ "recoverable" \in Range(calls[p].diags)
                /\ calls[p].result.err # "DiagnosticEmitted"
       /\ (Parsed(p) /\ calls[p].src.syntax = "fatal")
             => /\ calls[p].result = [kind |-> "err", key |-> NoKey,
                                      err |-> "DiagnosticEmitted"]
                /\ calls[p].keyid = NoKey
                /\ ScriptsOf(p) = {}


\* ------------------------------------------------------------------------
\* C23  order of the statements of the body buffer
\* ------------------------------------------------------------------------
\* Names bound to a member of an imported module by the import declarations
\* in front of item i (a reference to one of them is a member access).
MemberImportsBefore(items, i) ==
    {items[j].name : j \in {k \in 1..(i - 1) : /\ items[k].kind = "import"
                                               /\ items[k].sub \in {"named", "default"}}}

\* The statements item i of the module leaves in the body buffer, read off
\* the source text: each as <<kind, first identifier bound or property set>>.
BodyTagsAt(items, i) ==
    LET item == items[i]
        names == VarNames(item)
        local == SelectSeq(item.specs,
                           LAMBDA sp : sp.orig \notin MemberImportsBefore(items, i))
    IN CASE item.kind = "stmt_assign" -> <<<<"assign", item.name>>>>
         [] item.kind = "stmt_var" -> <<<<"var_decl", item.name>>>>
         [] item.kind = "export_var" ->
               <<<<"var_decl", names[1]>>>>
               \o [k \in 1..Len(names) |-> <<"export_assign", names[k]>>]
         [] item.kind = "export_fn" -> <<<<"fn_decl", item.name>>>>
         [] item.kind = "export_class" ->
               <<<<"class_decl", item.name>>, <<"export_assign", item.name>>>>
         [] item.kind = "export_default_fn" ->
               <<<<"fn_decl", OwnNameOrDefault(item)>>, <<"export_assign", "default">>>>
         [] item.kind = "export_default_class" ->
               <<<<"class_decl", OwnNameOrDefault(item)>>, <<"export_assign", "default">>>>
         [] item.kind = "export_default_expr" ->
               <<<<"var_decl", "_default">>, <<"export_assign", "default">>>>
         [] item.kind = "export_named" /\ item.src = "" ->
               [k \in 1..Len(local) |-> <<"export_assign", SpecExported(local[k])>>]
         [] OTHER -> <<>>

RECURSIVE BodyTagsUpTo(_, _)
BodyTagsUpTo(items, n) ==
    IF n = 0 THEN <<>> ELSE BodyTagsUpTo(items, n - 1) \o BodyTagsAt(items, n)

BodyTagsOf(ss) == [k \in 1..Len(ss) |-> BodyItemOfStmt(ss[k])]

\* A statement the transform itself puts in front of the module's own.
IsPreludeStatement(st, items) ==
    \/ st.op \in {"use_strict", "interop", "es_module", "define_getter",
                  "export_names", "export_all", "init_undef"}
    \/ st.op = "export_assign" /\ st.name \in ExportedFns(items)

\* C23: the body buffer holds, in source order, what the items read so far
\* leave in it, and the factory body is a run of prelude statements followed
\* by exactly the body buffer.
C23_BodyOrder ==
    /\ pc = "loop" => BodyTagsOf(extra_stmts) = BodyTagsUpTo(input, Len(input))
    /\ Done =>
          LET expected == BodyTagsUpTo(input, Len(input))
              split == Len(Body) - Len(expected)
          IN /\ split >= 0
             /\ BodyTagsOf(SubSeq(Body, split + 1, Len(Body))) = expected
             /\ \A k \in 1..split : IsPreludeStatement(Body[k], input)

\* const b = 0; export default 1; a = 1: the declaration, the default
\* export's declaration and assignment, and the plain assignment follow the
\* prelude in that order.
C23_Witness ==
    /\ pc = "done"
    /\ Len(input) = 3
    /\ input[1].kind = "stmt_var" /\ input[1].name = "b"
    /\ input[2].kind = "export_default_expr"
    /\ input[3].kind = "stmt_assign" /\ input[3].name = "a"
    /\ Len(Body) >= 5
    /\ BodyTagsOf(SubSeq(Body, Len(Body) - 3, Len(Body)))
          = <<<<"var_decl", "b">>, <<"var_decl", "_default">>,
              <<"export_assign", "default">>, <<"assign", "a">>>>
    /\ \A k \in 1..(Len(Body) - 4) : ~IsModuleStatement(Body[k])


\* ------------------------------------------------------------------------
\* C24  exported variable declarations
\* ------------------------------------------------------------------------
\* The statements of the module emitted so far: the body buffer while the
\* item loop runs, the factory body afterwards.
EmittedBody == IF pc = "loop" THEN extra_stmts ELSE Body

ExportedVarDecls == {i \in 1..Len(input) : input[i].kind = "export_var"}

\* Statement k is the declaration of item, followed by the export
\* assignments of the identifiers it binds, in binding order.
DeclThenAssigns(ss, k, item) ==
    LET names == VarNames(item)
    IN /\ k + Len(names) <= Len(ss)
       /\ ss[k].op = "var_decl" /\ ss[k].name = item.sub /\ ss[k].names = names
       /\ \A j \in 1..Len(names) : ss[k + j] = ExportAssign(names[j], names[j])

\* C24: an exported variable declaration leaves its declaration in the body,
\* directly followed by one `exports.x = x` per identifier it binds, in
\* binding order and nowhere else; every such identifier is in the
\* pre-initialized set, in declared_vars and recorded in exported_vars.
C24_ExportedVarDecl ==
    \A i \in ExportedVarDecls :
       LET item == input[i]
           names == VarNames(item)
       IN /\ \E k \in 1..Len(EmittedBody) : DeclThenAssigns(EmittedBody, k, item)
          /\ \A n \in Range(names) :
                /\ Cardinality({k \in 1..Len(EmittedBody) :
                                   /\ EmittedBody[k].op = "export_assign"
                                   /\ EmittedBody[k].name = n}) = 1
                /\ n \in initialized
                /\ n \in scope.declared_vars
                /\ n \in DOMAIN scope.exported_vars
                /\ n \in Range(scope.exported_vars[n])
                /\ Done => \E g \in BodyIdx("init_undef") : n \in Body[g].nset

\* export const {a, b} = 0 after another item: the declaration is followed
\* by exports.a = a and then exports.b = b.
C24_Witness ==
    /\ pc = "done"
    /\ Len(input) >= 2
    /\ \E i \in ExportedVarDecls :
          /\ VarNames(input[i]) = <<"a", "b">>
          /\ \E k \in BodyIdx("var_decl") :
                /\ Body[k].names = <<"a", "b">>
                /\ Body[k + 1] = ExportAssign("a", "a")
                /\ Body[k + 2] = ExportAssign("b", "b")
    /\ {"a", "b"} \subseteq initialized


\* ------------------------------------------------------------------------
\* C25  the counter and the stages of an invocation
\* ------------------------------------------------------------------------
\* Invocation p draws its key in this step.
DrawsKey(p) == calls[p].pc = "keyid" /\ calls'[p].pc = "host"

\* Invocation p ends in this step.
Ends(p) == calls[p].pc # "returned" /\ calls'[p].pc = "returned"

\* Errors returned before the key is drawn.
EarlyErrors == {"DiagnosticEmitted", "IOError", "PoisonError"}

KeyAccounting ==
    /\ KEYID' = KEYID + Cardinality({p \in Procs : DrawsKey(p)})
    /\ \A p \in Procs :
          /\ DrawsKey(p) =>
                /\ calls'[p].keyid = KEYID
                /\ \A q \in Procs \ {p} : calls[q].keyid < KEYID
          /\ ~DrawsKey(p) => calls'[p].keyid = calls[p].keyid
          /\ Ends(p) =>
                LET r == calls'[p].result
                    k == calls'[p].keyid
                IN /\ KEYID' = KEYID
                   /\ r.kind = "ok" => r.key = k /\ k \in 0..(KEYID - 1)
                   /\ (r.kind = "err" /\ r.err \in HostErrors) => k \in 0..(KEYID - 1)
                   /\ (r.kind = "err" /\ r.err \in EarlyErrors) => k = NoKey
                   /\ r.kind = "err" => r.err \in HostErrors \cup EarlyErrors

\* C25: the counter advances by exactly one in the step in which an
\* invocation that has parsed and printed draws its key, and in no other
\* step; each key drawn is greater than every key drawn before; an
\* invocation that fails at the window, document, head, element creation or
\* append has drawn a key that is not given back, one that fails at parsing
\* or printing has drawn none; a returned key is the key drawn.
C25_KeyAccounting == [][KeyAccounting]_vars

\* The first invocation failed for want of a document after it had drawn
\* key 0; the second failed in the parser and drew nothing: the counter is 1.
C25_Witness ==
    /\ KEYID = 1
    /\ \E p \in Returned("err") :
          /\ calls[p].result.err = "InvalidDocument"
          /\ calls[p].keyid = 0
    /\ \E q \in Returned("err") :
          /\ calls[q].result.err = "DiagnosticEmitted"
          /\ calls[q].keyid = NoKey

====
